---- MODULE Spec2Model ----
(***************************************************************************)
(* Model of the IPC substrate of piosphere/piteria:                        *)
(*   - the server runtime and its sessions (piteria/src/socket/server.rs), *)
(*     with the connected peers as the environment  (ServerSpec);          *)
(*   - the client facade and the client session                            *)
(*     (piosphere/src/socket/client.rs), with the server end of the one    *)
(*     connection as the environment  (ClientSpec).                        *)
(***************************************************************************)
EXTENDS Integers, Sequences, FiniteSets, TLC

\* ---------------------------------------------------------------- bounds
\* Calls of listener.accept() that return in one run, with a connection or
\* with an error.
MaxSessions == 2
\* Request frames the peers write in one run, all connections together.
MaxFrames == 1
\* Scaled-down width of usize, in bits (the id counter wraps at 2^IdWidth).
IdWidth == 3
\* Concurrent callers of one Client (the constructor's Hello call is caller 0).
MaxCallers == 2
\* Client::request calls the callers make in one run, all callers together
\* (the Hello call of Client::new not counted).
MaxCalls == 2

\* Scaled-down size of a frame header in bytes (size_of::<usize>()).
HEADER_SIZE == 2
\* Scaled-down number of values of a byte.
ByteBase == 4
\* Writes the peer makes on the byte-level connection in one run.
MaxWire == 2

\* Width of usize in bits, scaled down so far that the id counter wraps
\* within a run, and the connections accepted in such a run.
RegIdWidth == 1
RegMaxAccepts == 4

\* ------------------------------------------------------- program constants
\* Capacity of every tokio mpsc channel the program creates.
ChannelCap == 128

IdModulus == 2 ^ IdWidth

Tasks == 1..MaxSessions
NoTask == 0

Tags == {"Hello", "Overview", "ViewDeployment"}

\* What a peer can put on the wire as one frame: a well-formed envelope with
\* one of the three tags, or bytes that are no envelope.
FrameKinds == Tags \cup {"Malformed"}

VARIABLES
  \* ---- server side (piteria/src/socket/server.rs)
  rt_pc,        \* position of the runtime task
  rt_join,      \* task whose JoinHandle the runtime is awaiting (NoTask: none)
  rt_close_id,  \* id of the Close message being processed by process_sys
  terminators,  \* ServerRuntime.terminators : id -> task owning the receiver
  handles,      \* ServerRuntime.handles     : id -> task of the JoinHandle
  next_id,      \* ServerRuntime.next_id
  accepted,     \* connections accepted so far (= tasks spawned)
  accept_errs,  \* calls of listener.accept() that returned an error so far
  sys_chan,     \* the system channel: Close(id) messages in flight
  rt_term,      \* messages queued on the runtime's termination channel
  close_pc,     \* position of the caller of Server::close
  sess_st,      \* per session task: position
  sess_id,      \* per session task: ServerSession.id
  sess_msg,     \* per session task: the request it is answering
  term_q,       \* per session task: signals queued on its termination channel
  inbox,        \* per connection: request frames written by the peer, unread
  peer_open,    \* per connection: the peer has not closed its end
  sent,         \* frames the peers have written so far, all connections together
  outbox,       \* per connection: response frames written by the session
  removed_h,    \* per session task: times its join handle left the Registry
  removed_t,    \* per session task: times its terminator left the Registry
  \* ---- client side (piosphere/src/socket/client.rs)
  new_pc,       \* position of Client::new
  client_st,    \* the Client handle: none, open, closing, closed, dropped
  cs_pc,        \* position of the client session task
  cs_cur,       \* the PiosphereClientRequest the session is working on
  msg_q,        \* the request channel (client_tx -> session_rx)
  c_term,       \* signals queued on the client session's termination channel
  calls,        \* per caller: Client::request calls started so far
  call_tag,     \* per caller: the tag of the request of its current call
  call_st,      \* per caller: state of its current call
  call_res,     \* per caller: the request whose response its call returned
  reply,        \* per caller: the oneshot channel of its current call
  c2s,          \* request frames written by the session, unread by the server
  s2c,          \* response frames written by the server, unread by the session
  conn_open,    \* the server end of the connection is open
  written,      \* request frames the session has completely written
  handed,       \* responses the session has read and passed to tx.send
  cs_err,       \* the error of the session's last read ("none": it succeeded)
  \* ---- one connection of the server, byte by byte
  \*      (ServerSession::read and the frame writers of socket.rs)
  wire,         \* bytes the peer has written and the session has not read
  wire_st,      \* the peer's end: open, eof (closed), reset (closed with
                \* responses unread, so the next empty read is ECONNRESET)
  fr_sent,      \* what the peer wrote, in order: the request and its bytes
  fr_pc,        \* position of the session task on this connection
  fr_len,       \* the length ServerSession::read took from the header buffer
  fr_full,      \* the header buffer of the frame being read was filled
  fr_req,       \* the envelope handed to respond
  fr_err,       \* the error of the session's last read ("none": it succeeded)
  fr_disp,      \* the envelopes handed to respond so far, in order
  fr_out,       \* the responses written so far, in order
  fr_close,     \* Close notifications the session has sent
  \* ---- the Registry with a narrow id counter (ServerRuntime, the sessions
  \*      reduced to their life cycle)
  reg_pc,       \* position of the runtime task
  reg_join,     \* task whose JoinHandle process_sys is awaiting (NoTask: none)
  reg_close_id, \* id of the Close message being processed by process_sys
  reg_next,     \* ServerRuntime.next_id
  reg_terms,    \* ServerRuntime.terminators : id -> task owning the receiver
  reg_handles,  \* ServerRuntime.handles     : id -> task of the JoinHandle
  reg_accepted, \* connections accepted so far (= tasks spawned)
  reg_st,       \* per session task: none, running, closed, terminated
  reg_id,       \* per session task: ServerSession.id
  reg_sys       \* the system channel: Close(id) messages in flight

serverVars == << rt_pc, rt_join, rt_close_id, terminators, handles, next_id,
                 accepted, sys_chan, rt_term, close_pc, sess_st, sess_id,
                 sess_msg, term_q, inbox, peer_open, sent, outbox,
                 removed_h, removed_t, accept_errs >>

clientVars == << new_pc, client_st, cs_pc, cs_cur, msg_q, c_term, calls,
                 call_tag, call_st, call_res, reply, c2s, s2c, conn_open, written,
                 handed, cs_err >>

frameVars == << wire, wire_st, fr_sent, fr_pc, fr_len, fr_full, fr_req, fr_err,
                fr_disp, fr_out, fr_close >>

regVars == << reg_pc, reg_join, reg_close_id, reg_next, reg_terms, reg_handles,
              reg_accepted, reg_st, reg_id, reg_sys >>

vars == << serverVars, clientVars, frameVars, regVars >>

\* ------------------------------------------------------------- helpers
\* A map (function) without key k; and with k bound to v.
MapRemove(m, k) == [x \in (DOMAIN m) \ {k} |-> m[x]]
MapInsert(m, k, v) == [x \in (DOMAIN m) \cup {k} |-> IF x = k THEN v ELSE m[x]]
EmptyMap == [x \in {} |-> NoTask]

\* The removal counters after key k left map m (nothing left if k is not in m).
CountRemoval(cnt, m, k) ==
  IF k \in DOMAIN m THEN [cnt EXCEPT ![m[k]] = @ + 1] ELSE cnt

\* The session task has ended: its loop was left and the task returned, or
\* it panicked.
Finished(t) == sess_st[t] \in {"closed", "terminated", "panicked"}

\* The receiver of task t's termination channel still has a sender: the
\* sender lives in the terminators map until it is removed from it.
TermSenderAlive(t) == \E id \in DOMAIN terminators : terminators[id] = t

\* gen_id: the id handed out, and the counter after it.
GenId(n) == [id |-> n, next |-> (n + 1) % IdModulus]

\* The results Service Dispatch can produce for a request of this tag:
\* Hello cannot fail; Overview fails on a storage error; ViewDeployment fails
\* on a body that does not decode, an unknown id or storage error, an
\* unreadable config file or an unparsable vhost file.
DispatchResults(tag) ==
  CASE tag = "Hello"          -> {"Ok"}
    [] tag = "Overview"       -> {"Ok", "Sqlx"}
    [] tag = "ViewDeployment" -> {"Ok", "Bincode", "Sqlx", "IO", "NginxParse"}

\* ServerSession::read at end of stream: UnexpectedEof on the header becomes
\* the SocketClosed error.
ServerReadEof == "SocketClosed"

ServerInit ==
  /\ rt_pc = "select"
  /\ rt_join = NoTask
  /\ rt_close_id = 0
  /\ terminators = EmptyMap
  /\ handles = EmptyMap
  /\ next_id = 0
  /\ accepted = 0
  /\ accept_errs = 0
  /\ sys_chan = << >>
  /\ rt_term = 0
  /\ close_pc = "idle"
  /\ sess_st = [t \in Tasks |-> "none"]
  /\ sess_id = [t \in Tasks |-> 0]
  /\ sess_msg = [t \in Tasks |-> "none"]
  /\ term_q = [t \in Tasks |-> 0]
  /\ inbox = [t \in Tasks |-> << >>]
  /\ peer_open = [t \in Tasks |-> TRUE]
  /\ sent = 0
  /\ outbox = [t \in Tasks |-> << >>]
  /\ removed_h = [t \in Tasks |-> 0]
  /\ removed_t = [t \in Tasks |-> 0]

\* Callers of Client::request: caller 0 is Client::new with its Hello call.
Callers == 0..MaxCallers
Users == 1..MaxCallers

NoReq == [c |-> 0, n |-> 0, tag |-> "none"]
NoResp == [req |-> NoReq, ty |-> "none"]

\* States of a oneshot channel as its receiver sees it.
ChanNone == [st |-> "none", val |-> NoResp]
ChanPending == [st |-> "pending", val |-> NoResp]
ChanDropped == [st |-> "dropped", val |-> NoResp]
ChanValue(resp) == [st |-> "value", val |-> resp]

\* The response type the Message Catalog binds to a request tag
\* (#[request(Response, Tag)] in message.rs).
ResponseType(tag) ==
  CASE tag = "Hello"          -> "Hello"
    [] tag = "Overview"       -> "Vec<db::Deployment>"
    [] tag = "ViewDeployment" -> "deployment::Deployment"

\* bincode::deserialize::<M::Response>(&res) in Client::request: Hello is a
\* unit struct and decodes from any bytes; the other responses decode from
\* the bytes of a value of their own type.
Decodes(tag, resp) == tag = "Hello" \/ resp.ty = ResponseType(tag)

\* ClientSession::read at end of stream: Header::read passes the
\* UnexpectedEof of read_exact through `?`, which makes it the Io error.
ClientReadEof == "Io"

\* A frame whose header announces a length above isize::MAX: `vec![0; len]`
\* in ClientSession::read cannot build a buffer of that capacity.
OversizedFrame == [req |-> NoReq, ty |-> "CapacityOverflow"]

ClientInit ==
  /\ new_pc = "start"
  /\ client_st = "none"
  /\ cs_pc = "none"
  /\ cs_cur = NoReq
  /\ msg_q = << >>
  /\ c_term = 0
  /\ calls = [c \in Callers |-> 0]
  /\ call_tag = [c \in Callers |-> "none"]
  /\ call_st = [c \in Callers |-> "idle"]
  /\ call_res = [c \in Callers |-> NoReq]
  /\ reply = [c \in Callers |-> ChanNone]
  /\ c2s = << >>
  /\ s2c = << >>
  /\ conn_open = FALSE
  /\ written = 0
  /\ handed = 0
  /\ cs_err = "none"

\* ------------------------------------------------ frames, byte by byte
\* usize::to_le_bytes and usize::from_le_bytes over k bytes.
RECURSIVE ToLeBytes(_, _)
ToLeBytes(n, k) ==
  IF k = 0 THEN << >> ELSE << n % ByteBase >> \o ToLeBytes(n \div ByteBase, k - 1)

RECURSIVE FromLeBytes(_)
FromLeBytes(b) ==
  IF b = << >> THEN 0 ELSE Head(b) + ByteBase * FromLeBytes(Tail(b))

\* The lengths a header can announce are 0 .. HeaderModulus - 1.
HeaderModulus == ByteBase ^ HEADER_SIZE

\* Mutant of HeaderCreate: the length is encoded big-endian (to_be_bytes).
HeaderCreateBe(size) ==
  [i \in 1..HEADER_SIZE |->
     ToLeBytes(size % HeaderModulus, HEADER_SIZE)[HEADER_SIZE + 1 - i]]

\* Header::create and Header::size.
HeaderCreate(size) == ToLeBytes(size % HeaderModulus, HEADER_SIZE)
HeaderSize(bytes) == FromLeBytes(bytes)

\* PiteriaWrite::write / PiosphereWrite::write of a value whose bincode
\* serialization is `body`: the header for its length, then the body.
Write(body) == HeaderCreate(Len(body)) \o body

\* bincode with fixed-width integers, every integer scaled down to one byte:
\* an enum is its variant index, a Vec<u8> or String its length and then its
\* bytes, a unit struct nothing.
TagCode(tag) ==
  CASE tag = "Hello"          -> 0
    [] tag = "Overview"       -> 1
    [] tag = "ViewDeployment" -> 2

TagOfCode(code) == CHOOSE tag \in Tags : TagCode(tag) = code

SerVec(m) == << Len(m) >> \o m

\* A serialized Vec<u8> or String at the start of `bytes` is complete.
VecDecodes(bytes) == Len(bytes) >= 1 /\ Len(bytes) - 1 >= bytes[1]
DeVec(bytes) == SubSeq(bytes, 2, 1 + bytes[1])

\* The requests of the catalog (piosphere/src/socket/message.rs): Hello,
\* Overview and ViewDeployment(String), the string being the deployment id.
DeploymentIds == {<< >>, << 1 >>}
NoId == << >>
Requests ==
  {[tag |-> "Hello", id |-> NoId], [tag |-> "Overview", id |-> NoId]}
    \cup {[tag |-> "ViewDeployment", id |-> s] : s \in DeploymentIds}

\* bincode::serialize(self) of a request.
Serialize(v) == IF v.tag = "ViewDeployment" THEN SerVec(v.id) ELSE << >>

\* Mutant of ToRequest: the envelope is tagged Hello whatever the request is.
ToRequestHello(v) == [tag |-> "Hello", message |-> Serialize(v)]

\* Message::to_request: the envelope of a request.
ToRequest(v) == [tag |-> v.tag, message |-> Serialize(v)]

\* bincode::serialize of an envelope {tag, message} and
\* bincode::deserialize::<PiteriaRequest>: the tag must be a variant index
\* and the message complete; bytes after the message are ignored.
SerRequest(req) == << TagCode(req.tag) >> \o SerVec(req.message)

RequestDecodes(bytes) ==
  /\ Len(bytes) >= 2
  /\ bytes[1] \in {TagCode(tag) : tag \in Tags}
  /\ VecDecodes(Tail(bytes))

DeRequest(bytes) == [tag |-> TagOfCode(bytes[1]), message |-> DeVec(Tail(bytes))]

NoEnvelope == [tag |-> "none", message |-> << >>]

\* handle! (piosphere/src/socket/message.rs): the tag selects the request
\* type the message is deserialized as, and the handler of that type.
HandleDecodes(tag, message) ==
  IF tag = "ViewDeployment" THEN VecDecodes(message) ELSE TRUE

HandleRequest(tag, message) ==
  [tag |-> tag, id |-> IF tag = "ViewDeployment" THEN DeVec(message) ELSE NoId]

\* PiteriaService::respond: Hello and Overview do not look at the message;
\* ViewDeployment deserializes it as ViewDeployment(i64) and fails with a
\* Bincode error when it is too short; the other failures are those of the
\* storage and of the config files.
RespondResults(req) ==
  IF req.tag = "ViewDeployment"
    THEN IF Len(req.message) >= 1
           THEN DispatchResults(req.tag) \ {"Bincode"}
           ELSE {"Bincode"}
    ELSE DispatchResults(req.tag)

\* The type of the value PiteriaService::respond writes for a tag.
RespondType(tag) ==
  CASE tag = "Hello"          -> "Hello"
    [] tag = "Overview"       -> "Vec<db::Deployment>"
    [] tag = "ViewDeployment" -> "deployment::Deployment"

\* The response type #[request(Response, Tag)] declares in
\* piteria/src/socket.rs.
DeclaredResponse(tag) ==
  CASE tag = "Hello"          -> "Hello"
    [] tag = "Overview"       -> "Vec<db::Deployment>"
    [] tag = "ViewDeployment" -> "Vec<deployment::Deployment>"

\* What the peer writes that is no well-formed request frame: a piece of a
\* header; a frame announcing one byte more, or one byte less, than it
\* carries; a frame whose body is no envelope; a ViewDeployment envelope
\* whose message is empty.
NoRequest == [tag |-> "none", id |-> NoId]
HelloBody == SerRequest(ToRequest([tag |-> "Hello", id |-> NoId]))
RawChunks ==
  { << 1 >>,
    HeaderCreate(Len(HelloBody) + 1) \o HelloBody,
    HeaderCreate(Len(HelloBody) - 1) \o HelloBody,
    Write(<< 3, 0 >>),
    Write(SerRequest([tag |-> "ViewDeployment", message |-> << >>])) }

\* The bytes of the frames q[i], q[i+1], ... one after the other.
RECURSIVE BytesFrom(_, _)
BytesFrom(q, i) == IF i > Len(q) THEN << >> ELSE q[i].bytes \o BytesFrom(q, i + 1)

FrameInit ==
  /\ wire = << >>
  /\ wire_st = "open"
  /\ fr_sent = << >>
  /\ fr_pc = "select"
  /\ fr_len = 0
  /\ fr_full = TRUE
  /\ fr_req = NoEnvelope
  /\ fr_err = "none"
  /\ fr_disp = << >>
  /\ fr_out = << >>
  /\ fr_close = 0

\* ---------------------------------------- the Registry, narrow id counter
RegIdModulus == 2 ^ RegIdWidth

RegTasks == 1..RegMaxAccepts

\* gen_id over RegIdWidth bits: the id handed out, and the counter after it.
RegGenId(n) == [id |-> n, next |-> (n + 1) % RegIdModulus]

\* The session task is running: it was spawned and has not ended.
RegLive(t) == reg_st[t] = "running"

RegInit ==
  /\ reg_pc = "select"
  /\ reg_join = NoTask
  /\ reg_close_id = 0
  /\ reg_next = 0
  /\ reg_terms = EmptyMap
  /\ reg_handles = EmptyMap
  /\ reg_accepted = 0
  /\ reg_st = [t \in RegTasks |-> "none"]
  /\ reg_id = [t \in RegTasks |-> 0]
  /\ reg_sys = << >>

Init == ServerInit /\ ClientInit /\ FrameInit /\ RegInit

\* -------------------------------------------------------------- runtime
\* Mutant of RtAccept: the join handle of the spawned session is not
\* recorded (`self.handles.insert(session_id, handle)` is left out).
RtAcceptNoHandle ==
  /\ rt_pc = "select"
  /\ accepted + accept_errs < MaxSessions
  /\ LET t == accepted + 1
         g == GenId(next_id)
     IN /\ next_id' = g.next
        /\ accepted' = t
        /\ sess_st' = [sess_st EXCEPT ![t] = "select"]
        /\ sess_id' = [sess_id EXCEPT ![t] = g.id]
        /\ terminators' = MapInsert(terminators, g.id, t)
        /\ UNCHANGED handles
  /\ UNCHANGED << rt_pc, rt_join, rt_close_id, sys_chan, rt_term, close_pc,
                  sess_msg, term_q, inbox, peer_open, sent, outbox,
                  removed_h, removed_t >>
  /\ UNCHANGED accept_errs
  /\ UNCHANGED << clientVars, frameVars, regVars >>

\* Mutant of RtAccept: the runtime serves one connection at a time, taking
\* the next one only when no session is waiting for its peer or answering.
RtAcceptSerial ==
  /\ rt_pc = "select"
  /\ accepted + accept_errs < MaxSessions
  /\ \A u \in Tasks : sess_st[u] \notin {"select", "respond"}
  /\ LET t == accepted + 1
         g == GenId(next_id)
     IN /\ next_id' = g.next
        /\ accepted' = t
        /\ sess_st' = [sess_st EXCEPT ![t] = "select"]
        /\ sess_id' = [sess_id EXCEPT ![t] = g.id]
        /\ terminators' = MapInsert(terminators, g.id, t)
        /\ handles' = MapInsert(handles, g.id, t)
  /\ UNCHANGED << rt_pc, rt_join, rt_close_id, sys_chan, rt_term, close_pc,
                  sess_msg, term_q, inbox, peer_open, sent, outbox,
                  removed_h, removed_t >>
  /\ UNCHANGED accept_errs
  /\ UNCHANGED << clientVars, frameVars, regVars >>

\* select branch `listener.accept()`, Ok: allocate the id, spawn the session,
\* record the termination sender and the join handle.
RtAccept ==
  /\ rt_pc = "select"
  /\ accepted + accept_errs < MaxSessions
  /\ LET t == accepted + 1
         g == GenId(next_id)
     IN /\ next_id' = g.next
        /\ accepted' = t
        /\ sess_st' = [sess_st EXCEPT ![t] = "select"]
        /\ sess_id' = [sess_id EXCEPT ![t] = g.id]
        /\ terminators' = MapInsert(terminators, g.id, t)
        /\ handles' = MapInsert(handles, g.id, t)
  /\ UNCHANGED << rt_pc, rt_join, rt_close_id, sys_chan, rt_term, close_pc,
                  sess_msg, term_q, inbox, peer_open, sent, outbox,
                  removed_h, removed_t >>
  /\ UNCHANGED accept_errs
  /\ UNCHANGED << clientVars, frameVars, regVars >>

\* Mutant of RtAcceptErr: an accept error ends the runtime's loop.
RtAcceptErrBreak ==
  /\ rt_pc = "select"
  /\ accepted + accept_errs < MaxSessions
  /\ accept_errs' = accept_errs + 1
  /\ rt_pc' = "done"
  /\ UNCHANGED << rt_join, rt_close_id, terminators, handles, next_id,
                  accepted, sys_chan, rt_term, close_pc, sess_st, sess_id,
                  sess_msg, term_q, inbox, peer_open, sent, outbox,
                  removed_h, removed_t >>
  /\ UNCHANGED << clientVars, frameVars, regVars >>

\* select branch `listener.accept()`, Err: the error is printed and the loop
\* goes on; no id is allocated and nothing is spawned or recorded.
RtAcceptErr ==
  /\ rt_pc = "select"
  /\ accepted + accept_errs < MaxSessions
  /\ accept_errs' = accept_errs + 1
  /\ UNCHANGED << rt_pc, rt_join, rt_close_id, terminators, handles, next_id,
                  accepted, sys_chan, rt_term, close_pc, sess_st, sess_id,
                  sess_msg, term_q, inbox, peer_open, sent, outbox,
                  removed_h, removed_t >>
  /\ UNCHANGED << clientVars, frameVars, regVars >>

\* Mutant of RtRecvSys: process_sys takes the handle out and returns to the
\* select at once, leaving the terminator in its map.
RtRecvSysHandleOnly ==
  /\ rt_pc = "select"
  /\ Len(sys_chan) > 0
  /\ LET id == Head(sys_chan)
     IN /\ sys_chan' = Tail(sys_chan)
        /\ handles' = MapRemove(handles, id)
        /\ removed_h' = CountRemoval(removed_h, handles, id)
  /\ UNCHANGED << rt_pc, rt_join, rt_close_id, terminators, removed_t >>
  /\ UNCHANGED << next_id, accepted, rt_term, close_pc, sess_st, sess_id,
                  sess_msg, term_q, inbox, peer_open, sent, outbox >>
  /\ UNCHANGED accept_errs
  /\ UNCHANGED << clientVars, frameVars, regVars >>

\* Mutant of RtRecvSys: a Close notification ends the runtime's loop, as the
\* closed-channel arm of the same branch does.
RtRecvSysBreak ==
  /\ rt_pc = "select"
  /\ Len(sys_chan) > 0
  /\ sys_chan' = Tail(sys_chan)
  /\ rt_pc' = "done"
  /\ UNCHANGED << rt_join, rt_close_id, terminators, handles, next_id,
                  accepted, rt_term, close_pc, sess_st, sess_id, sess_msg,
                  term_q, inbox, peer_open, sent, outbox, removed_h,
                  removed_t >>
  /\ UNCHANGED accept_errs
  /\ UNCHANGED << clientVars, frameVars, regVars >>

\* select branch `sys_rx.recv()`, Some(Close(id)): process_sys takes the
\* handle out of the map; with a handle it goes on to await it, without one
\* it only removes the terminator.
RtRecvSys ==
  /\ rt_pc = "select"
  /\ Len(sys_chan) > 0
  /\ LET id == Head(sys_chan)
     IN /\ sys_chan' = Tail(sys_chan)
        /\ IF id \in DOMAIN handles
             THEN /\ rt_pc' = "close_wait"
                  /\ rt_join' = handles[id]
                  /\ rt_close_id' = id
                  /\ handles' = MapRemove(handles, id)
                  /\ removed_h' = CountRemoval(removed_h, handles, id)
                  /\ UNCHANGED << terminators, removed_t >>
             ELSE /\ terminators' = MapRemove(terminators, id)
                  /\ removed_t' = CountRemoval(removed_t, terminators, id)
                  /\ UNCHANGED << rt_pc, rt_join, rt_close_id, handles,
                                  removed_h >>
  /\ UNCHANGED << next_id, accepted, rt_term, close_pc, sess_st, sess_id,
                  sess_msg, term_q, inbox, peer_open, sent, outbox >>
  /\ UNCHANGED accept_errs
  /\ UNCHANGED << clientVars, frameVars, regVars >>

\* Mutant of RtCloseJoin: process_sys forgets `self.terminators.remove(&id)`.
RtCloseJoinKeep ==
  /\ rt_pc = "close_wait"
  /\ Finished(rt_join)
  /\ rt_pc' = "select"
  /\ rt_join' = NoTask
  /\ rt_close_id' = 0
  /\ UNCHANGED << terminators, handles, next_id, accepted, sys_chan, rt_term,
                  close_pc, sess_st, sess_id, sess_msg, term_q,
                  inbox, peer_open, sent, outbox, removed_h, removed_t >>
  /\ UNCHANGED accept_errs
  /\ UNCHANGED << clientVars, frameVars, regVars >>

\* Mutant of RtCloseJoin: process_sys drops the handle instead of awaiting
\* it (`let _ = handle;`), so it goes on whether or not the task has ended.
RtCloseJoinNoWait ==
  /\ rt_pc = "close_wait"
  /\ terminators' = MapRemove(terminators, rt_close_id)
  /\ removed_t' = CountRemoval(removed_t, terminators, rt_close_id)
  /\ rt_pc' = "select"
  /\ rt_join' = NoTask
  /\ rt_close_id' = 0
  /\ UNCHANGED << handles, next_id, accepted, sys_chan, rt_term,
                  close_pc, sess_st, sess_id, sess_msg, term_q,
                  inbox, peer_open, sent, outbox, removed_h >>
  /\ UNCHANGED accept_errs
  /\ UNCHANGED << clientVars, frameVars, regVars >>

\* process_sys after `handle.await` resolved: remove the terminator.
RtCloseJoin ==
  /\ rt_pc = "close_wait"
  /\ Finished(rt_join)
  /\ terminators' = MapRemove(terminators, rt_close_id)
  /\ removed_t' = CountRemoval(removed_t, terminators, rt_close_id)
  /\ rt_pc' = "select"
  /\ rt_join' = NoTask
  /\ rt_close_id' = 0
  /\ UNCHANGED << handles, next_id, accepted, sys_chan, rt_term,
                  close_pc, sess_st, sess_id, sess_msg, term_q,
                  inbox, peer_open, sent, outbox, removed_h >>
  /\ UNCHANGED accept_errs
  /\ UNCHANGED << clientVars, frameVars, regVars >>

\* select branch `terminate_rx.recv()`.
RtTerminate ==
  /\ rt_pc = "select"
  /\ rt_term > 0
  /\ rt_term' = rt_term - 1
  /\ rt_pc' = "term_send"
  /\ UNCHANGED << rt_join, rt_close_id, terminators, handles, next_id,
                  accepted, sys_chan, close_pc, sess_st, sess_id, sess_msg,
                  term_q, inbox, peer_open, sent, outbox, removed_h, removed_t >>
  /\ UNCHANGED accept_errs
  /\ UNCHANGED << clientVars, frameVars, regVars >>

\* Mutant of RtTermSend: the result of the send is unwrapped, so a session
\* that has already ended panics the runtime task.
RtTermSendUnwrap ==
  /\ rt_pc = "term_send"
  /\ \E id \in DOMAIN terminators :
       LET t == terminators[id]
       IN /\ term_q' = [term_q EXCEPT ![t] = IF Finished(t) THEN @ ELSE @ + 1]
          /\ terminators' = MapRemove(terminators, id)
          /\ removed_t' = CountRemoval(removed_t, terminators, id)
          /\ rt_pc' = IF Finished(t) THEN "panicked" ELSE rt_pc
  /\ UNCHANGED << rt_join, rt_close_id, handles, next_id, accepted,
                  sys_chan, rt_term, close_pc, sess_st, sess_id, sess_msg,
                  inbox, peer_open, sent, outbox, removed_h >>
  /\ UNCHANGED accept_errs
  /\ UNCHANGED << clientVars, frameVars, regVars >>

\* First pass of the termination branch: one iteration of
\* `for (id, term) in self.terminators.into_iter()`. The send is Ok when the
\* session still holds its receiver and an Err (printed) when it has ended;
\* the sender is dropped at the end of the iteration.
RtTermSend ==
  /\ rt_pc = "term_send"
  /\ \E id \in DOMAIN terminators :
       LET t == terminators[id]
       IN /\ term_q' = [term_q EXCEPT ![t] = IF Finished(t) THEN @ ELSE @ + 1]
          /\ terminators' = MapRemove(terminators, id)
          /\ removed_t' = CountRemoval(removed_t, terminators, id)
  /\ UNCHANGED << rt_pc, rt_join, rt_close_id, handles, next_id, accepted,
                  sys_chan, rt_term, close_pc, sess_st, sess_id, sess_msg,
                  inbox, peer_open, sent, outbox, removed_h >>
  /\ UNCHANGED accept_errs
  /\ UNCHANGED << clientVars, frameVars, regVars >>

\* Mutant of RtTermSent: signalling and joining are interleaved, the runtime
\* goes on to join after any send, with sessions not signalled yet.
RtTermSentEarly ==
  /\ rt_pc = "term_send"
  /\ rt_pc' = "term_join"
  /\ UNCHANGED << rt_join, rt_close_id, terminators, handles, next_id,
                  accepted, sys_chan, rt_term, close_pc, sess_st, sess_id,
                  sess_msg, term_q, inbox, peer_open, sent, outbox,
                  removed_h, removed_t >>
  /\ UNCHANGED accept_errs
  /\ UNCHANGED << clientVars, frameVars, regVars >>

\* The first pass is over: the second pass starts.
RtTermSent ==
  /\ rt_pc = "term_send"
  /\ DOMAIN terminators = {}
  /\ rt_pc' = "term_join"
  /\ UNCHANGED << rt_join, rt_close_id, terminators, handles, next_id,
                  accepted, sys_chan, rt_term, close_pc, sess_st, sess_id,
                  sess_msg, term_q, inbox, peer_open, sent, outbox,
                  removed_h, removed_t >>
  /\ UNCHANGED accept_errs
  /\ UNCHANGED << clientVars, frameVars, regVars >>

\* Second pass: the next `(id, handle)` of `self.handles.into_iter()` is
\* taken and awaited.
RtTermPick ==
  /\ rt_pc = "term_join"
  /\ rt_join = NoTask
  /\ \E id \in DOMAIN handles :
       /\ rt_join' = handles[id]
       /\ handles' = MapRemove(handles, id)
       /\ removed_h' = CountRemoval(removed_h, handles, id)
  /\ UNCHANGED << rt_pc, rt_close_id, terminators, next_id, accepted,
                  sys_chan, rt_term, close_pc, sess_st, sess_id, sess_msg,
                  term_q, inbox, peer_open, sent, outbox, removed_t >>
  /\ UNCHANGED accept_errs
  /\ UNCHANGED << clientVars, frameVars, regVars >>

\* Mutant of RtTermJoin: the handle is dropped instead of awaited, so the
\* second pass does not wait for the session task.
RtTermJoinNoWait ==
  /\ rt_pc = "term_join"
  /\ rt_join # NoTask
  /\ rt_join' = NoTask
  /\ UNCHANGED << rt_pc, rt_close_id, terminators, handles, next_id, accepted,
                  sys_chan, rt_term, close_pc, sess_st, sess_id, sess_msg,
                  term_q, inbox, peer_open, sent, outbox, removed_h,
                  removed_t >>
  /\ UNCHANGED accept_errs
  /\ UNCHANGED << clientVars, frameVars, regVars >>

\* `handle.await` resolved (Ok, or the JoinError of a panicked task, printed).
RtTermJoin ==
  /\ rt_pc = "term_join"
  /\ rt_join # NoTask
  /\ Finished(rt_join)
  /\ rt_join' = NoTask
  /\ UNCHANGED << rt_pc, rt_close_id, terminators, handles, next_id, accepted,
                  sys_chan, rt_term, close_pc, sess_st, sess_id, sess_msg,
                  term_q, inbox, peer_open, sent, outbox, removed_h, removed_t >>
  /\ UNCHANGED accept_errs
  /\ UNCHANGED << clientVars, frameVars, regVars >>

\* Mutant of RtExit: the runtime leaves after the join it is at, with
\* handles still in the map.
RtExitEarly ==
  /\ rt_pc = "term_join"
  /\ rt_join = NoTask
  /\ rt_pc' = "done"
  /\ UNCHANGED << rt_join, rt_close_id, terminators, handles, next_id,
                  accepted, sys_chan, rt_term, close_pc, sess_st, sess_id,
                  sess_msg, term_q, inbox, peer_open, sent, outbox,
                  removed_h, removed_t >>
  /\ UNCHANGED accept_errs
  /\ UNCHANGED << clientVars, frameVars, regVars >>

\* Both passes are over: `break`, the runtime task ends.
RtExit ==
  /\ rt_pc = "term_join"
  /\ rt_join = NoTask
  /\ DOMAIN handles = {}
  /\ rt_pc' = "done"
  /\ UNCHANGED << rt_join, rt_close_id, terminators, handles, next_id,
                  accepted, sys_chan, rt_term, close_pc, sess_st, sess_id,
                  sess_msg, term_q, inbox, peer_open, sent, outbox,
                  removed_h, removed_t >>
  /\ UNCHANGED accept_errs
  /\ UNCHANGED << clientVars, frameVars, regVars >>

\* -------------------------------------------------------------- sessions
\* select branch `Self::read(&mut self.stream)` with a whole frame to read:
\* an envelope that decodes is handed to respond; bytes that do not decode
\* give a Bincode error, which is printed (dbg!) and the loop goes on.
SessRead(t) ==
  /\ sess_st[t] = "select"
  /\ Len(inbox[t]) > 0
  /\ inbox' = [inbox EXCEPT ![t] = Tail(@)]
  /\ IF Head(inbox[t]) = "Malformed"
       THEN UNCHANGED << sess_st, sess_msg >>
       ELSE /\ sess_st' = [sess_st EXCEPT ![t] = "respond"]
            /\ sess_msg' = [sess_msg EXCEPT ![t] = Head(inbox[t])]
  /\ UNCHANGED << rt_pc, rt_join, rt_close_id, terminators, handles, next_id,
                  accepted, sys_chan, rt_term, close_pc, sess_id, term_q,
                  peer_open, sent, outbox, removed_h, removed_t >>
  /\ UNCHANGED accept_errs
  /\ UNCHANGED << clientVars, frameVars, regVars >>

\* select branch `Self::read(&mut self.stream)` at end of stream: the error
\* is SocketClosed and the session goes on to notify the runtime.
SessEof(t) ==
  /\ sess_st[t] = "select"
  /\ Len(inbox[t]) = 0
  /\ ~peer_open[t]
  /\ sess_st' = [sess_st EXCEPT ![t] =
                   IF ServerReadEof = "SocketClosed" THEN "closing" ELSE @]
  /\ UNCHANGED << rt_pc, rt_join, rt_close_id, terminators, handles, next_id,
                  accepted, sys_chan, rt_term, close_pc, sess_id, sess_msg,
                  term_q, inbox, peer_open, sent, outbox, removed_h, removed_t >>
  /\ UNCHANGED accept_errs
  /\ UNCHANGED << clientVars, frameVars, regVars >>

\* `self.sys_tx.send(SystemMessage::Close(self.id)).await.unwrap()`: the
\* send waits for room in the channel and fails, so that unwrap panics, when
\* the runtime has dropped the receiver. The task has not ended yet.
SessSendClose(t) ==
  /\ sess_st[t] = "closing"
  /\ IF rt_pc = "done"
       THEN /\ sess_st' = [sess_st EXCEPT ![t] = "panicked"]
            /\ UNCHANGED sys_chan
       ELSE /\ Len(sys_chan) < ChannelCap
            /\ sys_chan' = Append(sys_chan, sess_id[t])
            /\ sess_st' = [sess_st EXCEPT ![t] = "notified"]
  /\ UNCHANGED << rt_pc, rt_join, rt_close_id, terminators, handles, next_id,
                  accepted, rt_term, close_pc, sess_id, sess_msg, term_q,
                  inbox, peer_open, sent, outbox, removed_h, removed_t >>
  /\ UNCHANGED accept_errs
  /\ UNCHANGED << clientVars, frameVars, regVars >>

\* Mutant of SessExit: the session takes its own entries out of the Registry
\* when it ends (the maps shared with the runtime).
SessExitUnregister(t) ==
  /\ sess_st[t] = "notified"
  /\ sess_st' = [sess_st EXCEPT ![t] = "closed"]
  /\ handles' = MapRemove(handles, sess_id[t])
  /\ terminators' = MapRemove(terminators, sess_id[t])
  /\ UNCHANGED << rt_pc, rt_join, rt_close_id, next_id,
                  accepted, sys_chan, rt_term, close_pc, sess_id, sess_msg,
                  term_q, inbox, peer_open, sent, outbox, removed_h, removed_t >>
  /\ UNCHANGED accept_errs
  /\ UNCHANGED << clientVars, frameVars, regVars >>

\* `break` after the Close notification was sent: the loop is left and the
\* task ends, which is what resolves its join handle.
SessExit(t) ==
  /\ sess_st[t] = "notified"
  /\ sess_st' = [sess_st EXCEPT ![t] = "closed"]
  /\ UNCHANGED << rt_pc, rt_join, rt_close_id, terminators, handles, next_id,
                  accepted, sys_chan, rt_term, close_pc, sess_id, sess_msg,
                  term_q, inbox, peer_open, sent, outbox, removed_h, removed_t >>
  /\ UNCHANGED accept_errs
  /\ UNCHANGED << clientVars, frameVars, regVars >>

\* `self.service.respond(&mut self.stream, message).await.unwrap()`: Service
\* Dispatch runs and, when it succeeds, the response frame is written. A
\* dispatch failure leaves respond through `?` before anything is written;
\* the write towards a peer that has closed is an Io error. Either way
\* respond returns Err, the unwrap panics the session task, and the task
\* drops the stream with whatever was unread on it.
SessRespond(t) ==
  /\ sess_st[t] = "respond"
  /\ \E r \in DispatchResults(sess_msg[t]) :
       IF r = "Ok" /\ peer_open[t]
         THEN /\ outbox' = [outbox EXCEPT ![t] = Append(@, sess_msg[t])]
              /\ sess_st' = [sess_st EXCEPT ![t] = "select"]
              /\ UNCHANGED inbox
         ELSE /\ sess_st' = [sess_st EXCEPT ![t] = "panicked"]
              /\ inbox' = [inbox EXCEPT ![t] = << >>]
              /\ UNCHANGED outbox
  /\ sess_msg' = [sess_msg EXCEPT ![t] = "none"]
  /\ UNCHANGED << rt_pc, rt_join, rt_close_id, terminators, handles, next_id,
                  accepted, sys_chan, rt_term, close_pc, sess_id, term_q,
                  peer_open, sent, removed_h, removed_t >>
  /\ UNCHANGED accept_errs
  /\ UNCHANGED << clientVars, frameVars, regVars >>

\* Mutant of SessTerminate: the termination signal is raced against the
\* whole loop body, so it also ends a session that is answering a request.
SessTerminateAnywhere(t) ==
  /\ sess_st[t] \in {"select", "respond"}
  /\ (term_q[t] > 0 \/ ~TermSenderAlive(t))
  /\ term_q' = [term_q EXCEPT ![t] = IF @ > 0 THEN @ - 1 ELSE @]
  /\ sess_st' = [sess_st EXCEPT ![t] = "terminated"]
  /\ inbox' = [inbox EXCEPT ![t] = << >>]
  /\ UNCHANGED << rt_pc, rt_join, rt_close_id, terminators, handles, next_id,
                  accepted, sys_chan, rt_term, close_pc, sess_id, sess_msg,
                  peer_open, sent, outbox, removed_h, removed_t >>
  /\ UNCHANGED accept_errs
  /\ UNCHANGED << clientVars, frameVars, regVars >>

\* Mutant of SessTerminate: the termination branch notifies the runtime
\* with a Close message before it leaves the loop.
SessTerminateNotify(t) ==
  /\ sess_st[t] = "select"
  /\ (term_q[t] > 0 \/ ~TermSenderAlive(t))
  /\ term_q' = [term_q EXCEPT ![t] = IF @ > 0 THEN @ - 1 ELSE @]
  /\ sess_st' = [sess_st EXCEPT ![t] = "terminated"]
  /\ inbox' = [inbox EXCEPT ![t] = << >>]
  /\ sys_chan' = IF rt_pc = "done" THEN sys_chan ELSE Append(sys_chan, sess_id[t])
  /\ UNCHANGED << rt_pc, rt_join, rt_close_id, terminators, handles, next_id,
                  accepted, rt_term, close_pc, sess_id, sess_msg,
                  peer_open, sent, outbox, removed_h, removed_t >>
  /\ UNCHANGED accept_errs
  /\ UNCHANGED << clientVars, frameVars, regVars >>

\* select branch `self.terminate_rx.recv()`: a queued signal, or None once
\* every sender is gone; both leave the loop without a Close notification,
\* and the task ends, dropping the stream with whatever was unread on it.
SessTerminate(t) ==
  /\ sess_st[t] = "select"
  /\ (term_q[t] > 0 \/ ~TermSenderAlive(t))
  /\ term_q' = [term_q EXCEPT ![t] = IF @ > 0 THEN @ - 1 ELSE @]
  /\ sess_st' = [sess_st EXCEPT ![t] = "terminated"]
  /\ inbox' = [inbox EXCEPT ![t] = << >>]
  /\ UNCHANGED << rt_pc, rt_join, rt_close_id, terminators, handles, next_id,
                  accepted, sys_chan, rt_term, close_pc, sess_id, sess_msg,
                  peer_open, sent, outbox, removed_h, removed_t >>
  /\ UNCHANGED accept_errs
  /\ UNCHANGED << clientVars, frameVars, regVars >>

\* ------------------------------------------------------ peers (environment)
\* The peer of connection t writes one frame.
PeerSend(t, k) ==
  /\ sess_st[t] # "none"
  /\ ~Finished(t)
  /\ peer_open[t]
  /\ sent < MaxFrames
  /\ inbox' = [inbox EXCEPT ![t] = Append(@, k)]
  /\ sent' = sent + 1
  /\ UNCHANGED << rt_pc, rt_join, rt_close_id, terminators, handles, next_id,
                  accepted, sys_chan, rt_term, close_pc, sess_st, sess_id,
                  sess_msg, term_q, peer_open, outbox, removed_h, removed_t >>
  /\ UNCHANGED accept_errs
  /\ UNCHANGED << clientVars, frameVars, regVars >>

\* The peer of connection t closes its end (seen by the session only while
\* the session holds the stream).
PeerClose(t) ==
  /\ sess_st[t] # "none"
  /\ ~Finished(t)
  /\ peer_open[t]
  /\ peer_open' = [peer_open EXCEPT ![t] = FALSE]
  /\ UNCHANGED << rt_pc, rt_join, rt_close_id, terminators, handles, next_id,
                  accepted, sys_chan, rt_term, close_pc, sess_st, sess_id,
                  sess_msg, term_q, inbox, sent, outbox, removed_h, removed_t >>
  /\ UNCHANGED accept_errs
  /\ UNCHANGED << clientVars, frameVars, regVars >>

\* ------------------------------------------------------------ Server::close
\* `self.terminate_tx.send(()).await.unwrap()`.
ServerCloseSend ==
  /\ close_pc = "idle"
  /\ rt_pc # "done"
  /\ rt_term' = rt_term + 1
  /\ close_pc' = "sent"
  /\ UNCHANGED << rt_pc, rt_join, rt_close_id, terminators, handles, next_id,
                  accepted, sys_chan, sess_st, sess_id, sess_msg, term_q, inbox, peer_open, sent, outbox, removed_h, removed_t >>
  /\ UNCHANGED accept_errs
  /\ UNCHANGED << clientVars, frameVars, regVars >>

\* `self.rt_handle.await` resolved: close returns.
ServerCloseReturn ==
  /\ close_pc = "sent"
  /\ rt_pc = "done"
  /\ close_pc' = "returned"
  /\ UNCHANGED << rt_pc, rt_join, rt_close_id, terminators, handles, next_id,
                  accepted, sys_chan, rt_term, sess_st, sess_id, sess_msg,
                  term_q, inbox, peer_open, sent, outbox, removed_h, removed_t >>
  /\ UNCHANGED accept_errs
  /\ UNCHANGED << clientVars, frameVars, regVars >>

RuntimeStep ==
  \/ RtAccept
  \/ RtAcceptErr
  \/ RtRecvSys
  \/ RtCloseJoin
  \/ RtTerminate
  \/ RtTermSend
  \/ RtTermSent
  \/ RtTermPick
  \/ RtTermJoin
  \/ RtExit

SessionStep(t) ==
  \/ SessRead(t)
  \/ SessEof(t)
  \/ SessSendClose(t)
  \/ SessExit(t)
  \/ SessRespond(t)
  \/ SessTerminate(t)

ServerNext ==
  \/ RuntimeStep
  \/ \E t \in Tasks : SessionStep(t)
  \/ \E t \in Tasks, k \in FrameKinds : PeerSend(t, k)
  \/ \E t \in Tasks : PeerClose(t)
  \/ ServerCloseSend
  \/ ServerCloseReturn

ServerSpec == Init /\ [][ServerNext]_vars

\* The tokio scheduler polls every task that can make progress: the runtime
\* task, each session task and the task that called Server::close. The peers
\* are under no obligation.
ServerFairness ==
  /\ WF_vars(RuntimeStep)
  /\ \A t \in Tasks : WF_vars(SessionStep(t))
  /\ WF_vars(ServerCloseReturn)

ServerFairSpec == ServerSpec /\ ServerFairness

\* ======================================================================
\* The client facade and the client session
\* ======================================================================

\* The sender of request r's oneshot channel is dropped without a send: the
\* caller still waiting on that channel sees it closed.
DropTx(rep, r) ==
  IF r # NoReq /\ calls[r.c] = r.n /\ rep[r.c] = ChanPending
    THEN [rep EXCEPT ![r.c] = ChanDropped]
    ELSE rep

\* Every request of queue q is dropped (the session's msg_rx is dropped with
\* the requests still buffered in it).
RECURSIVE DropAll(_, _)
DropAll(rep, q) ==
  IF q = << >> THEN rep ELSE DropAll(DropTx(rep, Head(q)), Tail(q))

\* tx.send(res) on request r's oneshot channel: the value reaches the caller
\* if it still holds the receiver of that call; otherwise send is an error.
SendTx(rep, r, resp) ==
  IF calls[r.c] = r.n /\ rep[r.c] = ChanPending
    THEN [rep EXCEPT ![r.c] = ChanValue(resp)]
    ELSE rep

\* ------------------------------------------------------------ Client::new
\* `UnixStream::connect(socket).await?` succeeds: the session is spawned and
\* the handle is built; the Hello call follows.
NewConnect ==
  /\ new_pc = "start"
  /\ new_pc' = "handshake"
  /\ client_st' = "open"
  /\ cs_pc' = "select"
  /\ conn_open' = TRUE
  /\ UNCHANGED << cs_cur, msg_q, c_term, calls, call_tag, call_st, call_res, reply,
                  c2s, s2c, written, handed >>
  /\ UNCHANGED cs_err
  /\ UNCHANGED << serverVars, frameVars, regVars >>

\* `UnixStream::connect(socket).await?` fails: new returns the error before
\* anything is spawned.
NewConnectFail ==
  /\ new_pc = "start"
  /\ new_pc' = "err"
  /\ UNCHANGED << client_st, cs_pc, cs_cur, msg_q, c_term, calls, call_tag, call_st,
                  call_res, reply, c2s, s2c, conn_open, written, handed >>
  /\ UNCHANGED cs_err
  /\ UNCHANGED << serverVars, frameVars, regVars >>

\* Mutant of NewReturn: the result of the Hello call is ignored and the
\* handle is returned whatever it was.
NewReturnIgnore ==
  /\ new_pc = "handshake"
  /\ call_st[0] \in {"ok", "failed", "decode_err"}
  /\ new_pc' = "ok"
  /\ UNCHANGED << client_st, cs_pc, cs_cur, msg_q, c_term, calls, call_tag,
                  call_st, call_res, reply, c2s, s2c, conn_open, written,
                  handed >>
  /\ UNCHANGED cs_err
  /\ UNCHANGED << serverVars, frameVars, regVars >>

\* `this.request(Hello).await?` has returned: Ok(this) on success; on an
\* error `this` is dropped, and with it both senders it holds.
NewReturn ==
  /\ new_pc = "handshake"
  /\ call_st[0] \in {"ok", "failed", "decode_err"}
  /\ IF call_st[0] = "ok"
       THEN /\ new_pc' = "ok"
            /\ UNCHANGED client_st
       ELSE /\ new_pc' = "err"
            /\ client_st' = "dropped"
  /\ UNCHANGED << cs_pc, cs_cur, msg_q, c_term, calls, call_tag, call_st, call_res,
                  reply, c2s, s2c, conn_open, written, handed >>
  /\ UNCHANGED cs_err
  /\ UNCHANGED << serverVars, frameVars, regVars >>

\* -------------------------------------------------------- Client::request
\* The caller may use the handle: Client::new for its Hello call, everyone
\* else once new has returned Ok and until close consumes the handle.
RECURSIVE CallsUpTo(_)
CallsUpTo(c) == IF c = 0 THEN 0 ELSE calls[c] + CallsUpTo(c - 1)

MayCall(c) ==
  IF c = 0
    THEN new_pc = "handshake" /\ calls[0] = 0
    ELSE new_pc = "ok" /\ client_st = "open" /\ CallsUpTo(MaxCallers) < MaxCalls

\* Client::request up to `self.tx.send(request).await`: the request is built
\* with a fresh oneshot channel and queued; with the session's receiver gone
\* the send fails and request returns ChannelClosed.
Request(c, tag) ==
  /\ MayCall(c)
  /\ call_st[c] # "waiting"
  /\ (c = 0) => (tag = "Hello")
  /\ calls' = [calls EXCEPT ![c] = @ + 1]
  /\ call_tag' = [call_tag EXCEPT ![c] = tag]
  /\ call_res' = [call_res EXCEPT ![c] = NoReq]
  /\ IF cs_pc = "done"
       THEN /\ call_st' = [call_st EXCEPT ![c] = "failed"]
            /\ reply' = [reply EXCEPT ![c] = ChanNone]
            /\ UNCHANGED msg_q
       ELSE /\ Len(msg_q) < ChannelCap
            /\ msg_q' = Append(msg_q, [c |-> c, n |-> calls[c] + 1, tag |-> tag])
            /\ call_st' = [call_st EXCEPT ![c] = "waiting"]
            /\ reply' = [reply EXCEPT ![c] = ChanPending]
  /\ UNCHANGED << new_pc, client_st, cs_pc, cs_cur, c_term, c2s, s2c,
                  conn_open, written, handed >>
  /\ UNCHANGED cs_err
  /\ UNCHANGED << serverVars, frameVars, regVars >>

\* Client::request from `rx.await` on: a value is deserialized as the
\* response type of the request and returned; a closed channel makes request
\* return ChannelClosed.
RequestReturn(c) ==
  /\ call_st[c] = "waiting"
  /\ reply[c].st \in {"value", "dropped"}
  /\ IF reply[c].st = "dropped"
       THEN /\ call_st' = [call_st EXCEPT ![c] = "failed"]
            /\ UNCHANGED call_res
       ELSE /\ call_st' = [call_st EXCEPT ![c] =
                  IF Decodes(call_tag[c], reply[c].val) THEN "ok" ELSE "decode_err"]
            /\ call_res' = [call_res EXCEPT ![c] = reply[c].val.req]
  /\ reply' = [reply EXCEPT ![c] = ChanNone]
  /\ UNCHANGED << new_pc, client_st, cs_pc, cs_cur, msg_q, c_term, calls,
                  call_tag, c2s, s2c, conn_open, written, handed >>
  /\ UNCHANGED cs_err
  /\ UNCHANGED << serverVars, frameVars, regVars >>

\* The caller gives up its call while waiting (its future is dropped, as by
\* a timeout): the receiver of the oneshot channel is dropped.
Abandon(c) ==
  /\ c # 0
  /\ call_st[c] = "waiting"
  /\ call_st' = [call_st EXCEPT ![c] = "abandoned"]
  /\ reply' = [reply EXCEPT ![c] = ChanNone]
  /\ UNCHANGED << new_pc, client_st, cs_pc, cs_cur, msg_q, c_term, calls,
                  call_tag, call_res, c2s, s2c, conn_open, written, handed >>
  /\ UNCHANGED cs_err
  /\ UNCHANGED << serverVars, frameVars, regVars >>

\* Mutant of CsTerminate: only a signal ends the loop; the None of a closed
\* termination channel is skipped like the None of the request channel.
CsTerminateSignalOnly ==
  /\ cs_pc = "select"
  /\ c_term > 0
  /\ c_term' = c_term - 1
  /\ cs_pc' = "done"
  /\ reply' = DropAll(reply, msg_q)
  /\ msg_q' = << >>
  /\ UNCHANGED << new_pc, client_st, cs_cur, calls, call_tag, call_st,
                  call_res, c2s, s2c, conn_open, written, handed >>
  /\ UNCHANGED cs_err
  /\ UNCHANGED << serverVars, frameVars, regVars >>

\* ---------------------------------------------------------- ClientSession
\* select branch `self.terminate_rx.recv()`: a signal, or None once the
\* Client and its sender are gone. The task ends and drops msg_rx with the
\* requests still queued in it.
CsTerminate ==
  /\ cs_pc = "select"
  /\ (c_term > 0 \/ client_st = "dropped")
  /\ c_term' = IF c_term > 0 THEN c_term - 1 ELSE c_term
  /\ cs_pc' = "done"
  /\ reply' = DropAll(reply, msg_q)
  /\ msg_q' = << >>
  /\ UNCHANGED << new_pc, client_st, cs_cur, calls, call_tag, call_st,
                  call_res, c2s, s2c, conn_open, written, handed >>
  /\ UNCHANGED cs_err
  /\ UNCHANGED << serverVars, frameVars, regVars >>

\* Mutant of CsSend: a failed write is not told apart from a finished one,
\* and the session goes on to read the response either way.
CsSendReadAnyway ==
  /\ cs_pc = "select"
  /\ Len(msg_q) > 0
  /\ msg_q' = Tail(msg_q)
  /\ IF conn_open
       THEN /\ c2s' = Append(c2s, Head(msg_q))
            /\ written' = written + 1
       ELSE UNCHANGED << c2s, written >>
  /\ cs_cur' = Head(msg_q)
  /\ cs_pc' = "read"
  /\ UNCHANGED reply
  /\ UNCHANGED << new_pc, client_st, c_term, calls, call_tag, call_st,
                  call_res, s2c, conn_open, handed >>
  /\ cs_err' = "none"
  /\ UNCHANGED << serverVars, frameVars, regVars >>

\* Mutant of CsSend: the next request is taken and written while the
\* response to the previous one is still awaited (requests are pipelined).
CsSendPipelined ==
  /\ cs_pc \in {"select", "read"}
  /\ Len(msg_q) > 0
  /\ msg_q' = Tail(msg_q)
  /\ IF conn_open
       THEN /\ c2s' = Append(c2s, Head(msg_q))
            /\ written' = written + 1
            /\ cs_cur' = Head(msg_q)
            /\ cs_pc' = "read"
            /\ UNCHANGED reply
       ELSE /\ reply' = DropTx(reply, Head(msg_q))
            /\ UNCHANGED << c2s, written, cs_cur, cs_pc >>
  /\ UNCHANGED << new_pc, client_st, c_term, calls, call_tag, call_st,
                  call_res, s2c, conn_open, handed >>
  /\ cs_err' = "none"
  /\ UNCHANGED << serverVars, frameVars, regVars >>

\* Mutant of CsSend: when the caller has already dropped its receiver
\* (tx.is_closed()), the session writes the request but does not read its
\* response.
CsSendSkipClosed ==
  /\ cs_pc = "select"
  /\ Len(msg_q) > 0
  /\ msg_q' = Tail(msg_q)
  /\ IF conn_open
       THEN /\ c2s' = Append(c2s, Head(msg_q))
            /\ written' = written + 1
            /\ IF calls[Head(msg_q).c] = Head(msg_q).n
                    /\ reply[Head(msg_q).c] = ChanPending
                 THEN cs_cur' = Head(msg_q) /\ cs_pc' = "read"
                 ELSE UNCHANGED << cs_cur, cs_pc >>
            /\ UNCHANGED reply
       ELSE /\ reply' = DropTx(reply, Head(msg_q))
            /\ UNCHANGED << c2s, written, cs_cur, cs_pc >>
  /\ UNCHANGED << new_pc, client_st, c_term, calls, call_tag, call_st,
                  call_res, s2c, conn_open, handed >>
  /\ cs_err' = "none"
  /\ UNCHANGED << serverVars, frameVars, regVars >>

\* select branch `self.msg_rx.recv()`, Some(msg), up to the write:
\* `self.stream.write(msg)` writes the whole frame and the session goes on to
\* read; towards a closed peer it is an Io error, and `continue` drops tx.
CsSend ==
  /\ cs_pc = "select"
  /\ Len(msg_q) > 0
  /\ msg_q' = Tail(msg_q)
  /\ IF conn_open
       THEN /\ c2s' = Append(c2s, Head(msg_q))
            /\ written' = written + 1
            /\ cs_cur' = Head(msg_q)
            /\ cs_pc' = "read"
            /\ UNCHANGED reply
       ELSE /\ reply' = DropTx(reply, Head(msg_q))
            /\ UNCHANGED << c2s, written, cs_cur, cs_pc >>
  /\ UNCHANGED << new_pc, client_st, c_term, calls, call_tag, call_st,
                  call_res, s2c, conn_open, handed >>
  /\ cs_err' = "none"
  /\ UNCHANGED << serverVars, frameVars, regVars >>

\* Mutant of CsReadOk: with the caller gone the session does not consume the
\* response; it leaves the frame on the stream and returns to the select.
CsReadOkLeaveUnread ==
  /\ cs_pc = "read"
  /\ Len(s2c) > 0
  /\ Head(s2c) # OversizedFrame
  /\ IF calls[cs_cur.c] = cs_cur.n /\ reply[cs_cur.c] = ChanPending
       THEN /\ s2c' = Tail(s2c)
            /\ reply' = SendTx(reply, cs_cur, Head(s2c))
            /\ handed' = handed + 1
       ELSE UNCHANGED << s2c, reply, handed >>
  /\ cs_cur' = NoReq
  /\ cs_pc' = "select"
  /\ UNCHANGED << new_pc, client_st, msg_q, c_term, calls, call_tag, call_st,
                  call_res, c2s, conn_open, written >>
  /\ UNCHANGED cs_err
  /\ UNCHANGED << serverVars, frameVars, regVars >>

\* `Self::read(&mut self.stream)` returns a whole frame: the bytes go to the
\* caller through tx.send (an error if the caller is gone, only printed).
CsReadOk ==
  /\ cs_pc = "read"
  /\ Len(s2c) > 0
  /\ Head(s2c) # OversizedFrame
  /\ s2c' = Tail(s2c)
  /\ reply' = SendTx(reply, cs_cur, Head(s2c))
  /\ handed' = handed + 1
  /\ cs_cur' = NoReq
  /\ cs_pc' = "select"
  /\ UNCHANGED << new_pc, client_st, msg_q, c_term, calls, call_tag, call_st,
                  call_res, c2s, conn_open, written >>
  /\ UNCHANGED cs_err
  /\ UNCHANGED << serverVars, frameVars, regVars >>

\* Mutant of CsReadErr: on a failed read the session keeps the request and
\* its tx for later instead of dropping them.
CsReadErrKeepTx ==
  /\ cs_pc = "read"
  /\ Len(s2c) = 0
  /\ ~conn_open
  /\ cs_cur' = NoReq
  /\ cs_pc' = "select"
  /\ UNCHANGED << new_pc, client_st, msg_q, c_term, calls, call_tag, call_st,
                  call_res, reply, c2s, s2c, conn_open, written, handed >>
  /\ cs_err' = ClientReadEof
  /\ UNCHANGED << serverVars, frameVars, regVars >>

\* `Self::read(&mut self.stream)` fails at end of stream. Only the
\* SocketClosed error leaves the loop (dropping msg_rx and what is queued in
\* it); any other error is printed and the loop goes on. tx is dropped
\* either way.
CsReadErr ==
  /\ cs_pc = "read"
  /\ Len(s2c) = 0
  /\ ~conn_open
  /\ cs_cur' = NoReq
  /\ IF ClientReadEof = "SocketClosed"
       THEN /\ cs_pc' = "done"
            /\ reply' = DropAll(DropTx(reply, cs_cur), msg_q)
            /\ msg_q' = << >>
       ELSE /\ cs_pc' = "select"
            /\ reply' = DropTx(reply, cs_cur)
            /\ UNCHANGED msg_q
  /\ UNCHANGED << new_pc, client_st, c_term, calls, call_tag, call_st,
                  call_res, c2s, s2c, conn_open, written, handed >>
  /\ cs_err' = ClientReadEof
  /\ UNCHANGED << serverVars, frameVars, regVars >>

\* ------------------------------------------------------------ Client::close
\* `self.terminate_tx.send(()).await` (an error is only printed). close takes
\* the handle by value, so no call borrows it any more.
ClientCloseSend ==
  /\ new_pc = "ok"
  /\ client_st = "open"
  /\ \A c \in Callers : call_st[c] # "waiting"
  /\ client_st' = "closing"
  /\ c_term' = IF cs_pc = "done" THEN c_term ELSE c_term + 1
  /\ UNCHANGED << new_pc, cs_pc, cs_cur, msg_q, calls, call_tag, call_st,
                  call_res, reply, c2s, s2c, conn_open, written, handed >>
  /\ UNCHANGED cs_err
  /\ UNCHANGED << serverVars, frameVars, regVars >>

\* Mutant of ClientCloseReturn: close returns after the signal was sent,
\* without awaiting the session's join handle.
ClientCloseReturnNoWait ==
  /\ client_st = "closing"
  /\ client_st' = "closed"
  /\ UNCHANGED << new_pc, cs_pc, cs_cur, msg_q, c_term, calls, call_tag,
                  call_st, call_res, reply, c2s, s2c, conn_open, written,
                  handed >>
  /\ UNCHANGED cs_err
  /\ UNCHANGED << serverVars, frameVars, regVars >>

\* `self.session_handle.await` resolved: close returns.
ClientCloseReturn ==
  /\ client_st = "closing"
  /\ cs_pc = "done"
  /\ client_st' = "closed"
  /\ UNCHANGED << new_pc, cs_pc, cs_cur, msg_q, c_term, calls, call_tag,
                  call_st, call_res, reply, c2s, s2c, conn_open, written,
                  handed >>
  /\ UNCHANGED cs_err
  /\ UNCHANGED << serverVars, frameVars, regVars >>

\* The Client is dropped without close (it goes out of scope): both senders
\* it holds are dropped and the session's join handle is detached. No call
\* borrows the handle at that point.
ClientDrop ==
  /\ new_pc = "ok"
  /\ client_st = "open"
  /\ \A c \in Callers : call_st[c] # "waiting"
  /\ client_st' = "dropped"
  /\ UNCHANGED << new_pc, cs_pc, cs_cur, msg_q, c_term, calls, call_tag,
                  call_st, call_res, reply, c2s, s2c, conn_open, written,
                  handed >>
  /\ UNCHANGED cs_err
  /\ UNCHANGED << serverVars, frameVars, regVars >>

\* ------------------------------------- the server end (environment)
\* The server session reads the next request frame and writes the response
\* to it.
SrvAnswer ==
  /\ conn_open
  /\ Len(c2s) > 0
  /\ c2s' = Tail(c2s)
  /\ s2c' = Append(s2c, [req |-> Head(c2s), ty |-> ResponseType(Head(c2s).tag)])
  /\ UNCHANGED << new_pc, client_st, cs_pc, cs_cur, msg_q, c_term, calls,
                  call_tag, call_st, call_res, reply, conn_open, written,
                  handed >>
  /\ UNCHANGED cs_err
  /\ UNCHANGED << serverVars, frameVars, regVars >>

\* The server end of the connection goes away (the session task ended or
\* the server process was killed); what it had not read is lost.
SrvGone ==
  /\ conn_open
  /\ conn_open' = FALSE
  /\ c2s' = << >>
  /\ UNCHANGED << new_pc, client_st, cs_pc, cs_cur, msg_q, c_term, calls,
                  call_tag, call_st, call_res, reply, s2c, written, handed >>
  /\ UNCHANGED cs_err
  /\ UNCHANGED << serverVars, frameVars, regVars >>

SessionTaskStep ==
  \/ CsTerminate
  \/ CsSend
  \/ CsReadOk
  \/ CsReadErr

ClientNext ==
  \/ NewConnect
  \/ NewConnectFail
  \/ NewReturn
  \/ \E c \in Callers, tag \in Tags : Request(c, tag)
  \/ \E c \in Callers : RequestReturn(c)
  \/ \E c \in Callers : Abandon(c)
  \/ SessionTaskStep
  \/ ClientCloseSend
  \/ ClientCloseReturn
  \/ ClientDrop
  \/ SrvAnswer
  \/ SrvGone

ClientSpec == Init /\ [][ClientNext]_vars

\* The tokio scheduler polls every task that can make progress: the session
\* task and each task blocked in Client::new, Client::request or
\* Client::close. The server end is under no obligation.
ClientFairness ==
  /\ WF_vars(SessionTaskStep)
  /\ WF_vars(NewReturn)
  /\ \A c \in Callers : WF_vars(RequestReturn(c))
  /\ WF_vars(ClientCloseReturn)

ClientFairSpec == ClientSpec /\ ClientFairness

\* ======================================================================
\* One server connection, byte by byte
\* ======================================================================

\* The session task on this connection has ended.
FrFinished == fr_pc \in {"closed", "panicked"}

\* --------------------------------------------------- the peer (environment)
\* The peer sends request v: to_request, then write.
FrPeerWrite(v) ==
  /\ wire_st = "open"
  /\ ~FrFinished
  /\ Len(fr_sent) < MaxWire
  /\ LET bytes == Write(SerRequest(ToRequest(v)))
     IN /\ wire' = wire \o bytes
        /\ fr_sent' = Append(fr_sent, [req |-> v, bytes |-> bytes])
  /\ UNCHANGED << wire_st, fr_pc, fr_len, fr_full, fr_req, fr_err, fr_disp,
                  fr_out, fr_close >>
  /\ UNCHANGED << serverVars, clientVars, regVars >>

\* The peer writes bytes that are no well-formed request frame.
FrPeerWriteRaw(c) ==
  /\ wire_st = "open"
  /\ ~FrFinished
  /\ Len(fr_sent) < MaxWire
  /\ wire' = wire \o c
  /\ fr_sent' = Append(fr_sent, [req |-> NoRequest, bytes |-> c])
  /\ UNCHANGED << wire_st, fr_pc, fr_len, fr_full, fr_req, fr_err, fr_disp,
                  fr_out, fr_close >>
  /\ UNCHANGED << serverVars, clientVars, regVars >>

\* The peer closes its end having read every response: the session reads
\* what is left and then end of stream.
FrPeerClose ==
  /\ wire_st = "open"
  /\ ~FrFinished
  /\ wire_st' = "eof"
  /\ UNCHANGED << wire, fr_sent, fr_pc, fr_len, fr_full, fr_req, fr_err,
                  fr_disp, fr_out, fr_close >>
  /\ UNCHANGED << serverVars, clientVars, regVars >>

\* The peer closes its end with a response unread: the session reads what is
\* left, then one read fails with ECONNRESET, then it reads end of stream.
FrPeerReset ==
  /\ wire_st = "open"
  /\ ~FrFinished
  /\ Len(fr_out) > 0
  /\ wire_st' = "reset"
  /\ UNCHANGED << wire, fr_sent, fr_pc, fr_len, fr_full, fr_req, fr_err,
                  fr_disp, fr_out, fr_close >>
  /\ UNCHANGED << serverVars, clientVars, regVars >>

\* -------------------------------------------------------------- the session
\* ServerSession::read, the header: `stream.read_exact(&mut buf)` into the
\* zeroed header buffer. It fills the buffer; or it fails with UnexpectedEof,
\* which read returns as SocketClosed; or it fails with another error, which
\* the `if let` drops, and read goes on with the buffer as it is. Then
\* `Header::size(buf)`.
FrReadHeader ==
  /\ fr_pc = "select"
  /\ IF Len(wire) >= HEADER_SIZE
       THEN /\ fr_len' = HeaderSize(SubSeq(wire, 1, HEADER_SIZE))
            /\ wire' = SubSeq(wire, HEADER_SIZE + 1, Len(wire))
            /\ fr_full' = TRUE
            /\ fr_pc' = "body"
            /\ fr_err' = "none"
            /\ UNCHANGED wire_st
       ELSE /\ wire_st # "open"
            /\ wire' = << >>
            /\ IF wire_st = "eof"
                 THEN /\ fr_err' = "SocketClosed"
                      /\ fr_pc' = "closing"
                      /\ UNCHANGED << fr_len, fr_full, wire_st >>
                 ELSE /\ fr_len' = HeaderSize(wire)
                      /\ fr_full' = FALSE
                      /\ fr_pc' = "body"
                      /\ fr_err' = "none"
                      /\ wire_st' = "eof"
  /\ UNCHANGED << fr_sent, fr_req, fr_disp, fr_out, fr_close >>
  /\ UNCHANGED << serverVars, clientVars, regVars >>

\* Mutant of FrReadBody: the body is everything that has arrived, whatever
\* length the header announced.
FrReadBodyGreedy ==
  /\ fr_pc = "body"
  /\ Len(wire) >= fr_len
  /\ wire' = << >>
  /\ IF RequestDecodes(wire)
       THEN /\ fr_req' = DeRequest(wire)
            /\ fr_disp' = Append(fr_disp, DeRequest(wire))
            /\ fr_pc' = "respond"
            /\ UNCHANGED fr_err
       ELSE /\ fr_err' = "Bincode"
            /\ fr_pc' = "select"
            /\ UNCHANGED << fr_req, fr_disp >>
  /\ UNCHANGED << wire_st, fr_sent, fr_len, fr_full, fr_out, fr_close >>
  /\ UNCHANGED << serverVars, clientVars, regVars >>

\* ServerSession::read, the body: `stream.read_exact(&mut buf)?` for the
\* announced length, an Io error when the stream ends first, and
\* `bincode::deserialize(&buf)?`, a Bincode error when the bytes are no
\* envelope. An envelope goes to respond; an error other than SocketClosed
\* is printed (dbg!) and the loop goes on.
FrReadBody ==
  /\ fr_pc = "body"
  /\ IF Len(wire) >= fr_len
       THEN LET buf == SubSeq(wire, 1, fr_len)
            IN /\ wire' = SubSeq(wire, fr_len + 1, Len(wire))
               /\ UNCHANGED wire_st
               /\ IF RequestDecodes(buf)
                    THEN /\ fr_req' = DeRequest(buf)
                         /\ fr_disp' = Append(fr_disp, DeRequest(buf))
                         /\ fr_pc' = "respond"
                         /\ UNCHANGED fr_err
                    ELSE /\ fr_err' = "Bincode"
                         /\ fr_pc' = "select"
                         /\ UNCHANGED << fr_req, fr_disp >>
       ELSE /\ wire_st # "open"
            /\ wire' = << >>
            /\ wire_st' = "eof"
            /\ fr_err' = "Io"
            /\ fr_pc' = "select"
            /\ UNCHANGED << fr_req, fr_disp >>
  /\ UNCHANGED << fr_sent, fr_len, fr_full, fr_out, fr_close >>
  /\ UNCHANGED << serverVars, clientVars, regVars >>

\* `self.service.respond(&mut self.stream, message).await.unwrap()`: the
\* response is written when dispatch succeeds and the peer's end is open;
\* otherwise respond returns Err and the unwrap panics the session task.
FrRespond ==
  /\ fr_pc = "respond"
  /\ \E r \in RespondResults(fr_req) :
       IF r = "Ok" /\ wire_st = "open"
         THEN /\ fr_out' = Append(fr_out, [tag |-> fr_req.tag,
                                           ty |-> RespondType(fr_req.tag)])
              /\ fr_pc' = "select"
              /\ UNCHANGED wire
         ELSE /\ fr_pc' = "panicked"
              /\ wire' = << >>
              /\ UNCHANGED fr_out
  /\ fr_req' = NoEnvelope
  /\ UNCHANGED << wire_st, fr_sent, fr_len, fr_full, fr_err, fr_disp,
                  fr_close >>
  /\ UNCHANGED << serverVars, clientVars, regVars >>

\* `self.sys_tx.send(SystemMessage::Close(self.id)).await.unwrap(); break`.
FrSendClose ==
  /\ fr_pc = "closing"
  /\ fr_close' = fr_close + 1
  /\ fr_pc' = "closed"
  /\ UNCHANGED << wire, wire_st, fr_sent, fr_len, fr_full, fr_req, fr_err,
                  fr_disp, fr_out >>
  /\ UNCHANGED << serverVars, clientVars, regVars >>

FrameNext ==
  \/ \E v \in Requests : FrPeerWrite(v)
  \/ \E c \in RawChunks : FrPeerWriteRaw(c)
  \/ FrPeerClose
  \/ FrPeerReset
  \/ FrReadHeader
  \/ FrReadBody
  \/ FrRespond
  \/ FrSendClose

FrameSpec == Init /\ [][FrameNext]_vars

\* ======================================================================
\* The Registry with an id counter that wraps within a run
\* ======================================================================

\* select branch `listener.accept()`, Ok: gen_id, spawn, and the two inserts.
\* HashMap::insert under a key that is present replaces the value: the old
\* termination sender and the old join handle are dropped.
RegAccept ==
  /\ reg_pc = "select"
  /\ reg_accepted < RegMaxAccepts
  /\ LET t == reg_accepted + 1
         g == RegGenId(reg_next)
     IN /\ reg_next' = g.next
        /\ reg_accepted' = t
        /\ reg_st' = [reg_st EXCEPT ![t] = "running"]
        /\ reg_id' = [reg_id EXCEPT ![t] = g.id]
        /\ reg_terms' = MapInsert(reg_terms, g.id, t)
        /\ reg_handles' = MapInsert(reg_handles, g.id, t)
  /\ UNCHANGED << reg_pc, reg_join, reg_close_id, reg_sys >>
  /\ UNCHANGED << serverVars, clientVars, frameVars >>

\* A session finds its peer closed: it sends Close(self.id) and ends.
RegSessClose(t) ==
  /\ RegLive(t)
  /\ Len(reg_sys) < ChannelCap
  /\ reg_sys' = Append(reg_sys, reg_id[t])
  /\ reg_st' = [reg_st EXCEPT ![t] = "closed"]
  /\ UNCHANGED << reg_pc, reg_join, reg_close_id, reg_next, reg_terms,
                  reg_handles, reg_accepted, reg_id >>
  /\ UNCHANGED << serverVars, clientVars, frameVars >>

\* select branch `self.terminate_rx.recv()` of a session whose termination
\* sender is no longer in the map (it was replaced and dropped): recv gives
\* None and the session leaves its loop.
RegSessTerminate(t) ==
  /\ RegLive(t)
  /\ ~\E id \in DOMAIN reg_terms : reg_terms[id] = t
  /\ reg_st' = [reg_st EXCEPT ![t] = "terminated"]
  /\ UNCHANGED << reg_pc, reg_join, reg_close_id, reg_next, reg_terms,
                  reg_handles, reg_accepted, reg_id, reg_sys >>
  /\ UNCHANGED << serverVars, clientVars, frameVars >>

\* select branch `sys_rx.recv()`, Some(Close(id)): process_sys takes the
\* handle under id out of the map and awaits it, or, without a handle, only
\* removes the terminator under id.
RegRecvSys ==
  /\ reg_pc = "select"
  /\ Len(reg_sys) > 0
  /\ LET id == Head(reg_sys)
     IN /\ reg_sys' = Tail(reg_sys)
        /\ IF id \in DOMAIN reg_handles
             THEN /\ reg_pc' = "close_wait"
                  /\ reg_join' = reg_handles[id]
                  /\ reg_close_id' = id
                  /\ reg_handles' = MapRemove(reg_handles, id)
                  /\ UNCHANGED reg_terms
             ELSE /\ reg_terms' = MapRemove(reg_terms, id)
                  /\ UNCHANGED << reg_pc, reg_join, reg_close_id, reg_handles >>
  /\ UNCHANGED << reg_next, reg_accepted, reg_st, reg_id >>
  /\ UNCHANGED << serverVars, clientVars, frameVars >>

\* process_sys after `handle.await` resolved: remove the terminator.
RegCloseJoin ==
  /\ reg_pc = "close_wait"
  /\ reg_st[reg_join] \in {"closed", "terminated"}
  /\ reg_terms' = MapRemove(reg_terms, reg_close_id)
  /\ reg_pc' = "select"
  /\ reg_join' = NoTask
  /\ reg_close_id' = 0
  /\ UNCHANGED << reg_next, reg_handles, reg_accepted, reg_st, reg_id, reg_sys >>
  /\ UNCHANGED << serverVars, clientVars, frameVars >>

RegistryNext ==
  \/ RegAccept
  \/ \E t \in RegTasks : RegSessClose(t)
  \/ \E t \in RegTasks : RegSessTerminate(t)
  \/ RegRecvSys
  \/ RegCloseJoin

RegistrySpec == Init /\ [][RegistryNext]_vars

\* ======================================================================
\* Claims about the client facade and the client session
\* ======================================================================

\* The request of caller c's current call.
OwnRequest(c) == [c |-> c, n |-> calls[c], tag |-> call_tag[c]]

\* C1: every response that reaches a caller, on its oneshot channel and as
\* the result of its Client::request call, is the response the server wrote
\* for that caller's own current request.
C1_OwnResponse ==
  \A c \in Callers :
    /\ reply[c].st = "value" => reply[c].val.req = OwnRequest(c)
    /\ call_st[c] \in {"ok", "decode_err"} => call_res[c] = OwnRequest(c)

\* C1 witness: a caller holds the response to its own request while another
\* caller's request, issued concurrently, is still queued or in flight.
C1_Witness ==
  \E c, d \in Users :
    /\ c # d
    /\ reply[c].st = "value"
    /\ reply[c].val.req = OwnRequest(c)
    /\ call_st[d] = "waiting"
    /\ reply[d].st = "pending"

\* C2: at most one request is outstanding on the connection: at most one
\* frame is on the wire, at most one written request has no response handed
\* over yet, and a request is written only when the responses to all
\* requests written before it have been read and handed to their callers.
C2_OneOutstanding ==
  /\ [](Len(c2s) + Len(s2c) <= 1)
  /\ [](written - handed <= 1)
  /\ [][written' > written => handed = written]_vars

\* C2 witness: the third request of the connection is on the wire after the
\* responses to the first two were handed over.
C2_Witness ==
  /\ written = 3
  /\ handed = 2
  /\ cs_pc = "read"
  /\ Len(c2s) = 1

\* The session has written caller c's request and waits for the response,
\* and the server end is gone without having written one.
LostInFlight(c) ==
  /\ call_st[c] = "waiting"
  /\ cs_pc = "read"
  /\ cs_cur = OwnRequest(c)
  /\ ~conn_open
  /\ Len(s2c) = 0

\* C6: if the server end goes away after the session wrote a caller's
\* request and before a response arrived, the caller's pending call ends
\* with the channel-closed failure (unless the caller gave up by itself).
C6_LostCallFails ==
  \A c \in Callers :
    LostInFlight(c) ~> (call_st[c] \in {"failed", "abandoned"})

\* C6 witness: the only call a caller made was written, the server end went
\* away before answering it, and the call has returned the failure.
C6_Witness ==
  \E c \in Users :
    /\ calls[c] = 1
    /\ CallsUpTo(MaxCallers) = 1
    /\ call_st[c] = "failed"
    /\ written = handed + 1
    /\ ~conn_open

\* C7 (as claimed): when the read that follows a successful write fails
\* because the peer closed, the session leaves its loop.
C7_ReadFailureTerminal ==
  [][(cs_pc = "read" /\ ~conn_open /\ Len(s2c) = 0 /\ cs_pc' # "read")
       => cs_pc' = "done"]_vars

\* C10: Client::new returns Ok only after its Hello request was written and
\* the response to that very request was handed over and decoded; when new
\* returns an error no handle exists; and nobody calls through a handle that
\* new has not returned.
C10_HandshakeFirst ==
  /\ new_pc = "ok" =>
       /\ call_st[0] = "ok"
       /\ call_res[0] = [c |-> 0, n |-> 1, tag |-> "Hello"]
       /\ written >= 1
       /\ handed >= 1
  /\ new_pc = "err" => client_st \in {"none", "dropped"}
  /\ \A c \in Users : calls[c] > 0 => new_pc = "ok"

\* C10 witness: new has returned the handle and a caller is using it.
C10_Witness ==
  /\ new_pc = "ok"
  /\ \E c \in Users : call_st[c] = "waiting"


\* ======================================================================
\* Claims about the server runtime and its sessions
\* ======================================================================

Spawned == {t \in Tasks : sess_st[t] # "none"}

\* C3: when Server::close has returned, both Registry maps are empty and
\* every session task the runtime ever spawned has finished.
C3_CloseLeavesNothing ==
  close_pc = "returned" =>
    /\ DOMAIN terminators = {}
    /\ DOMAIN handles = {}
    /\ \A t \in Spawned : Finished(t)

\* C3 witness: close has returned after the runtime had spawned every session
\* of the run, one of which ended on the termination signal and one of which
\* had panicked and was still registered when the termination began.
C3_Witness ==
  /\ close_pc = "returned"
  /\ Spawned = Tasks
  /\ \E t \in Tasks : sess_st[t] = "terminated"
  /\ \E t \in Tasks : sess_st[t] = "panicked" /\ removed_t[t] = 1

RegisteredH(t) == \E id \in DOMAIN handles : handles[id] = t
RegisteredT(t) == \E id \in DOMAIN terminators : terminators[id] = t
CloseQueued(t) == \E i \in 1..Len(sys_chan) : sys_chan[i] = sess_id[t]

C8_DispatchFailureAnswered ==
  [][\A t \in Tasks :
       (sess_st[t] = "respond" /\ sess_st'[t] # "respond" /\ peer_open[t])
         => /\ sess_st'[t] = "select"
            /\ Len(outbox'[t]) = Len(outbox[t]) + 1]_vars

BlockedInExchange == cs_pc = "read" /\ Len(s2c) = 0 /\ conn_open

\* C11: Client::close signals termination first and then waits for the
\* session task: the step that starts close puts the signal on the
\* termination channel (unless the session has already ended), close has
\* returned only when the session task has finished, and a close that is
\* under way returns unless the session stays blocked in an exchange for
\* ever.
C11_CloseWaitsForSession ==
  /\ [](client_st = "closed" => cs_pc = "done")
  /\ [][(client_st = "open" /\ client_st' = "closing")
           => (cs_pc # "done" => c_term' = c_term + 1)]_vars
  /\ [](client_st = "closing"
          => (<>(client_st = "closed") \/ <>[]BlockedInExchange))

\* close has returned after the session took the termination branch while a
\* request whose caller had given up was still queued.
C11_Witness ==
  /\ client_st = "closed"
  /\ cs_pc = "done"
  /\ handed >= 1
  /\ \E c \in Users : call_st[c] = "abandoned"

\* ======================================================================
\* The select of the server session
\* ======================================================================

\* Both branches of session t's select are ready: a termination signal is
\* queued, and the stream has a frame to read or is at end of stream.
BothReady(t) ==
  /\ sess_st[t] = "select"
  /\ term_q[t] > 0
  /\ (Len(inbox[t]) > 0 \/ ~peer_open[t])

\* C16: when a termination signal and a readable frame (or a peer close) are
\* both ready at the session's select, the step the session takes is the
\* termination branch: it ends as terminated, having processed no frame and
\* sent no Close notification.
C16_TerminationWins ==
  [][\A t \in Tasks :
       (BothReady(t) /\ (sess_st'[t] # sess_st[t] \/ inbox'[t] # inbox[t]))
         => (sess_st'[t] = "terminated" /\ sys_chan' = sys_chan)]_vars

\* C17: a session that finds end of stream when it reads a frame header
\* sends one Close notification with its own id and leaves its loop: the
\* only step out of the notifying position appends Close(id) to the system
\* channel, the task's next step ends it, nothing else puts a message on
\* that channel, and a task that has ended stays ended. A session that leaves through the
\* termination branch puts nothing on the system channel.
C17_OneCloseNotification ==
  [][/\ \A t \in Tasks :
          /\ (sess_st[t] # "closing" /\ sess_st'[t] = "closing")
                => (sess_st[t] = "select" /\ inbox[t] = << >> /\ ~peer_open[t])
          /\ (sess_st[t] = "closing" /\ sess_st'[t] # "closing")
                => (sess_st'[t] = "notified"
                    /\ sys_chan' = Append(sys_chan, sess_id[t]))
          /\ (sess_st[t] = "notified" /\ sess_st'[t] # "notified")
                => (sess_st'[t] = "closed" /\ sys_chan' = sys_chan)
          /\ (sess_st[t] # "terminated" /\ sess_st'[t] = "terminated")
                => sys_chan' = sys_chan
          /\ Finished(t) => sess_st'[t] = sess_st[t]
     /\ (Len(sys_chan') > Len(sys_chan))
          => \E t \in Tasks : sess_st[t] = "closing" /\ sess_st'[t] = "notified"
    ]_vars

\* One session has sent its Close notification, still queued, and ended as
\* closed; another one has ended through the termination branch.
C17_Witness ==
  \E t, u \in Tasks :
    /\ sess_st[t] = "closed"
    /\ CloseQueued(t)
    /\ sess_st[u] = "terminated"

\* ======================================================================
\* Claims about frames, envelopes and the reader of the server session
\* ======================================================================

\* Everything the peer has written is a well-formed request frame.
AllRequests == \A i \in 1..Len(fr_sent) : fr_sent[i].req # NoRequest

\* The number whose little-endian digits are b[i], b[i+1], ...
RECURSIVE LeValue(_, _)
LeValue(b, i) ==
  IF i > Len(b) THEN 0 ELSE b[i] * ByteBase ^ (i - 1) + LeValue(b, i + 1)

\* C12: every response the server has written has the response type the
\* catalog declares for the tag of the request it answers.
C12_DeclaredResponseWritten ==
  \A i \in 1..Len(fr_out) : fr_out[i].ty = DeclaredResponse(fr_out[i].tag)

\* C13: headers round-trip and frames are header then body. For every
\* length n a header can hold, the header created for n has HEADER_SIZE
\* bytes, these are the little-endian digits of n, and Header::size gives n
\* back; every request frame written is HEADER_SIZE bytes holding the
\* length of its body in little-endian order followed by exactly the body;
\* and the length the session takes from the header of a request frame is
\* the length of that frame's body.
C13_HeaderRoundTrip ==
  /\ \A n \in 0..(HeaderModulus - 1) :
       /\ Len(HeaderCreate(n)) = HEADER_SIZE
       /\ \A i \in 1..HEADER_SIZE : HeaderCreate(n)[i] \in 0..(ByteBase - 1)
       /\ LeValue(HeaderCreate(n), 1) = n
       /\ HeaderSize(HeaderCreate(n)) = n
  /\ \A i \in 1..Len(fr_sent) :
       fr_sent[i].req # NoRequest =>
         LET body == SerRequest(ToRequest(fr_sent[i].req))
             bytes == fr_sent[i].bytes
         IN /\ Len(bytes) = HEADER_SIZE + Len(body)
            /\ LeValue(SubSeq(bytes, 1, HEADER_SIZE), 1) = Len(body)
            /\ SubSeq(bytes, HEADER_SIZE + 1, Len(bytes)) = body
  /\ (AllRequests /\ fr_pc = "body" /\ fr_full)
       => /\ Len(fr_disp) < Len(fr_sent)
          /\ fr_len = Len(SerRequest(ToRequest(fr_sent[Len(fr_disp) + 1].req)))

\* The session has read the header of the second of two request frames, a
\* ViewDeployment, and holds the length of its body.
C13_Witness ==
  /\ AllRequests
  /\ fr_pc = "body"
  /\ fr_full
  /\ Len(fr_disp) = 1
  /\ fr_sent[2].req.tag = "ViewDeployment"
  /\ fr_len = Len(fr_sent[2].bytes) - HEADER_SIZE
  /\ fr_len > Len(HelloBody)

\* C14: when the peer writes request frames back-to-back, the session takes
\* them in order on the boundaries the length prefixes give, hands each to
\* respond at most once, and writes the responses in the order of the
\* requests: the k-th envelope dispatched is the k-th request written, the
\* k-th response answers the k-th request, and between two frames the
\* unread bytes are exactly the frames not yet taken.
C14_FramesInOrder ==
  AllRequests =>
    /\ Len(fr_disp) <= Len(fr_sent)
    /\ \A k \in 1..Len(fr_disp) : fr_disp[k] = ToRequest(fr_sent[k].req)
    /\ Len(fr_out) <= Len(fr_disp)
    /\ \A k \in 1..Len(fr_out) : fr_out[k].tag = fr_sent[k].req.tag
    /\ fr_pc \in {"select", "respond"}
         => wire = BytesFrom(fr_sent, Len(fr_disp) + 1)

\* Two requests of different tags were written before any response; the
\* session has taken the first and the second is still unread, whole.
C14_Witness ==
  /\ AllRequests
  /\ Len(fr_sent) = 2
  /\ fr_sent[1].req.tag # fr_sent[2].req.tag
  /\ fr_pc = "respond"
  /\ Len(fr_disp) = 1
  /\ Len(fr_out) = 0
  /\ wire = fr_sent[2].bytes

\* C15: tag and body of an envelope are consistent. For every request,
\* to_request gives the envelope with the request's tag and the request's
\* serialization, and from the tag alone the server picks the decoder that
\* gives the request back; every envelope the session took off the wire
\* decodes, by its tag, to the request the peer sent.
C15_TagSelectsDecoder ==
  /\ \A v \in Requests :
       /\ ToRequest(v).tag = v.tag
       /\ ToRequest(v).message = Serialize(v)
       /\ HandleDecodes(ToRequest(v).tag, ToRequest(v).message)
       /\ HandleRequest(ToRequest(v).tag, ToRequest(v).message) = v
  /\ AllRequests =>
       \A k \in 1..Len(fr_disp) :
         /\ HandleDecodes(fr_disp[k].tag, fr_disp[k].message)
         /\ HandleRequest(fr_disp[k].tag, fr_disp[k].message) = fr_sent[k].req

\* The session took a ViewDeployment envelope off the wire whose message
\* decodes to the non-empty id the peer sent.
C15_Witness ==
  /\ AllRequests
  /\ \E k \in 1..Len(fr_disp) :
       /\ fr_disp[k].tag = "ViewDeployment"
       /\ fr_sent[k].req.id # NoId
       /\ HandleRequest(fr_disp[k].tag, fr_disp[k].message).id = fr_sent[k].req.id

\* C18: a decode failure on one inbound message leaves the session in its
\* loop with the connection as it was: after a body that is no envelope, and
\* after an envelope whose message does not decode as the request of its
\* tag, the session is back at its select.
C18_DecodeFailureStaysInLoop ==
  [][/\ (fr_pc = "body" /\ fr_pc' # "body" /\ Len(wire) >= fr_len
           /\ ~RequestDecodes(SubSeq(wire, 1, fr_len)))
          => fr_pc' = "select"
     /\ (fr_pc = "respond" /\ fr_pc' # "respond"
           /\ fr_req.tag = "ViewDeployment" /\ Len(fr_req.message) < 1)
          => (fr_pc' = "select" /\ wire' = wire)
    ]_vars

\* C19: a read fails with SocketClosed exactly when the peer closed the
\* stream before it supplied a full header, in the server session's reader
\* and in the client session's reader.
C19_SocketClosedIffPeerClosed ==
  [][/\ (fr_pc = "select" /\ fr_pc' # "select"
           /\ Len(wire) < HEADER_SIZE /\ wire_st # "open")
          <=> (fr_err' = "SocketClosed" /\ fr_err # "SocketClosed")
     /\ (cs_pc = "read" /\ cs_pc' # "read" /\ Len(s2c) = 0 /\ ~conn_open)
          <=> (cs_err' = "SocketClosed" /\ cs_err # "SocketClosed")
    ]_vars

\* C20: the session decodes and dispatches only after the complete header
\* and exactly the announced number of body bytes were read, and a failed
\* header read derives no length and decodes nothing: the session waits for
\* a body only with a header buffer that was filled, a header read that
\* found fewer than HEADER_SIZE bytes does not go on to a body, and an
\* envelope is dispatched only from exactly fr_len bytes after a full
\* header.
C20_WholeFrameBeforeDecode ==
  /\ [](fr_pc = "body" => fr_full)
  /\ [][(fr_pc = "select" /\ fr_pc' # "select" /\ Len(wire) < HEADER_SIZE)
          => fr_pc' # "body"]_vars
  /\ [][fr_disp' # fr_disp
          => /\ fr_pc = "body"
             /\ fr_full
             /\ Len(wire) >= fr_len
             /\ fr_disp' = Append(fr_disp, DeRequest(SubSeq(wire, 1, fr_len)))
             /\ wire' = SubSeq(wire, fr_len + 1, Len(wire))]_vars

\* ======================================================================
\* The Registry: registration of an accepted connection
\* ======================================================================

C22_FreshIdAmongLive ==
  [][reg_accepted' # reg_accepted =>
       LET t == reg_accepted + 1
           id == reg_id'[t]
       IN /\ id = reg_next
          /\ reg_next' = (reg_next + 1) % RegIdModulus
          /\ \A u \in RegTasks \ {t} : RegLive(u) => reg_id[u] # id
          /\ id \notin DOMAIN reg_terms
          /\ id \notin DOMAIN reg_handles
    ]_vars

\* ======================================================================
\* The Registry: processing a Close notification
\* ======================================================================

\* C23: processing Close(id) takes the handle under id out of the handles
\* map, waits until the task of that handle (the session that sent the
\* notification) has ended, and then takes id out of the terminators map;
\* without a handle under id it only takes id out of the terminators map.
\* Entries under other ids and the id counter are unchanged throughout, and
\* while it waits the runtime does nothing else.
C23_CloseUnregisters ==
  /\ [](rt_pc = "close_wait"
          => /\ rt_join \in Tasks
             /\ sess_id[rt_join] = rt_close_id
             /\ sess_st[rt_join] \in {"notified", "closed"}
             /\ rt_close_id \notin DOMAIN handles)
  /\ [][/\ (Len(sys_chan') < Len(sys_chan))
             => LET id == Head(sys_chan)
                IN /\ rt_pc = "select"
                   /\ sys_chan' = Tail(sys_chan)
                   /\ handles' = MapRemove(handles, id)
                   /\ next_id' = next_id
                   /\ IF id \in DOMAIN handles
                        THEN /\ rt_pc' = "close_wait"
                             /\ rt_join' = handles[id]
                             /\ rt_close_id' = id
                             /\ terminators' = terminators
                        ELSE /\ rt_pc' = "select"
                             /\ terminators' = MapRemove(terminators, id)
        /\ (rt_pc = "close_wait" /\ rt_pc' # "close_wait")
             => /\ Finished(rt_join)
                /\ rt_pc' = "select"
                /\ terminators' = MapRemove(terminators, rt_close_id)
        /\ rt_pc = "close_wait"
             => /\ handles' = handles
                /\ next_id' = next_id
                /\ accepted' = accepted
                /\ rt_term' >= rt_term
                /\ Len(sys_chan') >= Len(sys_chan)
                /\ rt_pc' = "close_wait" => terminators' = terminators
       ]_vars

\* The Close notification of a session that saw its peer close has been
\* processed while the runtime serves, never asked to terminate: the session
\* has ended and is in neither map, and another session, still running, is
\* in both.
C23_Witness ==
  /\ rt_pc = "select"
  /\ close_pc = "idle"
  /\ next_id = 2
  /\ \E t, u \in Tasks :
       /\ sess_st[t] = "closed"
       /\ ~CloseQueued(t)
       /\ sess_id[t] \notin DOMAIN handles
       /\ sess_id[t] \notin DOMAIN terminators
       /\ removed_h[t] = 1 /\ removed_t[t] = 1
       /\ sess_st[u] = "select"
       /\ RegisteredH(u) /\ RegisteredT(u)

\* ======================================================================
\* Termination of the runtime
\* ======================================================================

\* The runtime holds, or is awaiting, the join handle of task t.
HandleHeld(t) == RegisteredH(t) \/ rt_join = t

\* C24: signalling and joining are two passes. When the runtime waits on a
\* join handle of the termination branch, no termination sender is left in
\* the Registry: each was taken out once, by the send of the first pass or
\* by the processing of a Close notification, and every session whose handle
\* is awaited or still to be awaited has its signal queued or has ended.
\* The first pass awaits no handle and the second pass sends no signal.
C24_SignalAllThenJoin ==
  /\ [](rt_pc = "term_join"
          => /\ DOMAIN terminators = {}
             /\ \A t \in Spawned :
                  /\ removed_t[t] = 1
                  /\ HandleHeld(t) => (term_q[t] > 0 \/ Finished(t)))
  /\ [][/\ rt_pc = "term_send"
             => (rt_join' = NoTask /\ handles' = handles)
        /\ rt_pc = "term_join"
             => (terminators' = terminators
                 /\ \A t \in Tasks : term_q'[t] <= term_q[t])
        /\ (rt_pc # "term_join" /\ rt_pc' = "term_join")
             => (rt_pc = "term_send" /\ DOMAIN terminators = {})
       ]_vars

\* The runtime waits on the handle of a session that is busy with a request
\* while the other session, its signal queued and not yet seen, is still to
\* be joined.
C24_Witness ==
  /\ rt_pc = "term_join"
  /\ \E t, u \in Tasks :
       /\ rt_join = t
       /\ sess_st[t] = "respond"
       /\ term_q[t] = 1
       /\ RegisteredH(u)
       /\ sess_st[u] = "select"
       /\ term_q[u] = 1

\* The runtime has taken the termination branch of its select.
RtTerminating == rt_pc \in {"term_send", "term_join", "done"}

\* C25: once the runtime has taken the termination branch it stays in it,
\* calls accept no more, allocates no id, spawns no session and adds no
\* entry to either map; and when the runtime task has returned, no handle is
\* left in the map or being awaited, and the handle of every session ever
\* spawned has left the map once, to be awaited, and its task has ended.
C25_NoAcceptAfterTermination ==
  /\ [](rt_pc = "done"
          => /\ DOMAIN handles = {}
             /\ rt_join = NoTask
             /\ \A t \in Spawned : removed_h[t] = 1 /\ Finished(t))
  /\ [][RtTerminating
          => /\ RtTerminating'
             /\ accepted' = accepted
             /\ accept_errs' = accept_errs
             /\ next_id' = next_id
             /\ DOMAIN handles' \subseteq DOMAIN handles
             /\ DOMAIN terminators' \subseteq DOMAIN terminators
             /\ \A t \in Tasks : sess_st[t] = "none" => sess_st'[t] = "none"
       ]_vars

\* The runtime task has returned having accepted one connection, whose
\* session it signalled and joined, although the listener had another
\* connection to hand over.
C25_Witness ==
  /\ rt_pc = "done"
  /\ accepted = 1
  /\ accept_errs = 0
  /\ sess_st[1] = "terminated"
  /\ removed_h[1] = 1
  /\ sess_st[2] = "none"

\* ======================================================================
\* The Registry: life time of the entries
\* ======================================================================

\* C26 (as claimed): Registry entries live as long as the session's task.
\* While the runtime serves, an entry leaves a map only when its session has
\* left its loop; and once a session task has ended, for whatever reason,
\* both its entries eventually leave the Registry.
C26_EntriesLiveWithTask ==
  /\ [][\A t \in Tasks :
          ( /\ ~RtTerminating
            /\ \/ RegisteredH(t) /\ ~RegisteredH(t)'
               \/ RegisteredT(t) /\ ~RegisteredT(t)' )
            => sess_st[t] \in {"notified", "closed", "terminated", "panicked"}
       ]_vars
  /\ \A t \in Tasks : Finished(t) ~> (~RegisteredH(t) /\ ~RegisteredT(t))

\* ======================================================================
\* The loop of the runtime
\* ======================================================================

\* Senders of the system channel that exist: the sys_tx the runtime task
\* owns until it returns, and the clone of every session task that has not
\* ended.
SysSenders ==
  (IF rt_pc = "done" THEN 0 ELSE 1)
    + Cardinality({t \in Spawned : ~Finished(t)})

\* `sys_rx.recv()` would give None, the arm that stops the runtime: the
\* runtime is at its select, the channel is empty and has no sender.
RtSysClosedReady == rt_pc = "select" /\ Len(sys_chan) = 0 /\ SysSenders = 0

\* C27: the runtime leaves its loop only through the termination branch,
\* by taking a message off the termination channel. A step that handles an
\* accept error or takes a Close notification leaves the runtime in its
\* loop, the runtime task never panics, and the arm for a system channel
\* without senders is never ready.
C27_OnlyTerminationEndsLoop ==
  /\ [](rt_pc # "panicked")
  /\ [](~RtSysClosedReady)
  /\ [][/\ (rt_pc \in {"select", "close_wait"}
              /\ rt_pc' \notin {"select", "close_wait"})
             => /\ rt_pc = "select"
                /\ rt_term > 0
                /\ rt_term' = rt_term - 1
                /\ rt_pc' = "term_send"
        /\ accept_errs' # accept_errs => rt_pc' = "select"
        /\ Len(sys_chan') < Len(sys_chan) => rt_pc' \in {"select", "close_wait"}
       ]_vars

\* The runtime is at its select, never asked to terminate, after an accept
\* error and after it processed the Close notification of the one session
\* it spawned, so that no session holds a sender of the system channel.
C27_Witness ==
  /\ rt_pc = "select"
  /\ close_pc = "idle"
  /\ accept_errs = 1
  /\ accepted = 1
  /\ sess_st[1] = "closed"
  /\ sys_chan = << >>
  /\ removed_h[1] = 1
  /\ removed_t[1] = 1
  /\ SysSenders = 1

\* ======================================================================
\* The Registry has one writer
\* ======================================================================

\* The step is one of session task t: its position changes, it takes a
\* frame off its stream, writes a response, or takes a termination signal.
SessionMoves(t) ==
  /\ sess_st[t] # "none"
  /\ \/ sess_st'[t] # sess_st[t]
     \/ Len(inbox'[t]) < Len(inbox[t])
     \/ outbox'[t] # outbox[t]
     \/ term_q'[t] < term_q[t]

\* C28: the runtime task is the only writer of the Registry. A step of a
\* session, and a step that puts a Close notification on the system
\* channel, leaves both maps and the id counter as they are; a step that
\* changes a map or the counter is the runtime's accept, its taking of a
\* Close notification, the end of process_sys or a step of its termination
\* branch; and while the runtime serves, the only keys it removes are the id
\* of the Close notification it has taken.
C28_RuntimeOnlyWriter ==
  [][/\ ((\E t \in Tasks : SessionMoves(t)) \/ Len(sys_chan') > Len(sys_chan))
          => /\ handles' = handles
             /\ terminators' = terminators
             /\ next_id' = next_id
     /\ (handles' # handles \/ terminators' # terminators \/ next_id' # next_id)
          => \/ rt_pc = "select" /\ accepted' = accepted + 1
             \/ rt_pc = "select" /\ Len(sys_chan) > 0
                  /\ sys_chan' = Tail(sys_chan)
                  /\ DOMAIN handles' = DOMAIN handles \ {Head(sys_chan)}
                  /\ DOMAIN terminators' \subseteq DOMAIN terminators
                  /\ DOMAIN terminators \ DOMAIN terminators' \subseteq {Head(sys_chan)}
             \/ rt_pc = "close_wait" /\ rt_pc' = "select"
                  /\ handles' = handles
                  /\ DOMAIN terminators' = DOMAIN terminators \ {rt_close_id}
             \/ rt_pc \in {"term_send", "term_join"}
    ]_vars

\* One session has answered a request and the other has sent its Close
\* notification, not yet taken by the runtime: both are in both maps as
\* they were registered, and the counter is where the second accept left it.
C28_Witness ==
  /\ rt_pc = "select"
  /\ next_id = 2
  /\ \E t, u \in Tasks :
       /\ Len(outbox[t]) = 1
       /\ sess_st[t] = "select"
       /\ sess_st[u] = "notified"
       /\ CloseQueued(u)
       /\ handles = (sess_id[t] :> t) @@ (sess_id[u] :> u)
       /\ terminators = (sess_id[t] :> t) @@ (sess_id[u] :> u)

\* ======================================================================
\* Termination and the request being answered
\* ======================================================================

C30_TerminationAfterExchange ==
  /\ [][cs_pc = "read"
          => /\ c_term' >= c_term
             /\ cs_pc' \in {"read", "select"}
             /\ cs_pc' = "select"
                  => \/ handed' = handed + 1 /\ Len(s2c) > 0
                     \/ handed' = handed /\ Len(s2c) = 0 /\ ~conn_open
       ]_vars
  /\ \A k \in 0..(MaxCalls + 1) :
       []((cs_pc = "read" /\ c_term > 0 /\ written = k) => [](written = k))

\* ======================================================================
\* The client session facing a peer that announces an impossible length
\* ======================================================================

\* The peer writes a header whose eight bytes decode (usize::from_le_bytes)
\* to a length above isize::MAX. The session stops at the first such frame,
\* so one is all a connection can carry to it.
SrvOversized ==
  /\ conn_open
  /\ \A i \in 1..Len(s2c) : s2c[i] # OversizedFrame
  /\ s2c' = Append(s2c, OversizedFrame)
  /\ UNCHANGED << new_pc, client_st, cs_pc, cs_cur, msg_q, c_term, calls,
                  call_tag, call_st, call_res, reply, c2s, conn_open, written,
                  handed >>
  /\ UNCHANGED cs_err
  /\ UNCHANGED << serverVars, frameVars, regVars >>

\* Mutant of CsReadPanic: the task ends but what it owned is leaked instead
\* of dropped (tx and the requests buffered in msg_rx stay alive).
CsReadPanicLeak ==
  /\ cs_pc = "read"
  /\ Len(s2c) > 0
  /\ Head(s2c) = OversizedFrame
  /\ s2c' = Tail(s2c)
  /\ cs_cur' = NoReq
  /\ cs_pc' = "done"
  /\ UNCHANGED << new_pc, client_st, msg_q, c_term, calls, call_tag, call_st,
                  call_res, reply, c2s, conn_open, written, handed >>
  /\ cs_err' = "CapacityOverflow"
  /\ UNCHANGED << serverVars, frameVars, regVars >>

\* `Self::read(&mut self.stream)` on such a header: `vec![0; len]` panics
\* with "capacity overflow". The panic ends the session task; unwinding drops
\* tx, and the task's state with it: msg_rx and the requests buffered in it.
CsReadPanic ==
  /\ cs_pc = "read"
  /\ Len(s2c) > 0
  /\ Head(s2c) = OversizedFrame
  /\ s2c' = Tail(s2c)
  /\ cs_cur' = NoReq
  /\ cs_pc' = "done"
  /\ reply' = DropAll(DropTx(reply, cs_cur), msg_q)
  /\ msg_q' = << >>
  /\ UNCHANGED << new_pc, client_st, c_term, calls, call_tag, call_st,
                  call_res, c2s, conn_open, written, handed >>
  /\ cs_err' = "CapacityOverflow"
  /\ UNCHANGED << serverVars, frameVars, regVars >>

ClientPanicNext ==
  \/ ClientNext
  \/ SrvOversized
  \/ CsReadPanic

ClientPanicSpec == Init /\ [][ClientPanicNext]_vars

\* As ClientFairness: the session task is polled while it can make progress.
ClientPanicFairness ==
  /\ ClientFairness
  /\ WF_vars(CsReadPanic)

ClientPanicFairSpec == ClientPanicSpec /\ ClientPanicFairness

\* C31: once the client session task has exited, no request call is left
\* with a pending reply channel (a request still queued or in flight at the
\* exit has its channel closed by it), a call issued afterwards fails at its
\* send, and every call waiting on a closed channel returns the
\* channel-closed failure.
C31_RequestFailsAfterExit ==
  /\ [](cs_pc = "done" => \A c \in Callers : reply[c] # ChanPending)
  /\ [][\A c \in Callers :
          (cs_pc = "done" /\ calls'[c] # calls[c]) => call_st'[c] = "failed"
       ]_vars
  /\ \A c \in Callers :
       (cs_pc = "done" /\ call_st[c] = "waiting" /\ reply[c] = ChanDropped)
         ~> (call_st[c] \in {"failed", "abandoned"})

\* The session ended by the panic while the handle was in use and the peer
\* open: one user's request was written, the other's never was (it was
\* queued and unserved at the exit, or issued after it), and both calls
\* returned the failure.
C31_Witness ==
  /\ cs_pc = "done"
  /\ cs_err = "CapacityOverflow"
  /\ client_st = "open"
  /\ conn_open
  /\ written = 2
  /\ call_st[1] = "failed"
  /\ call_st[2] = "failed"

\* ======================================================================
\* Sessions and the runtime do not wait for one another
\* ======================================================================

\* Session t is waiting for a frame from a client that sends nothing, or is
\* in `self.service.respond(..)` (dispatch, then the write of the response).
SessStalled(t) ==
  \/ sess_st[t] = "respond"
  \/ /\ sess_st[t] = "select"
     /\ inbox[t] = << >>
     /\ peer_open[t]
     /\ term_q[t] = 0

C33_MapsSameIdsAtSelect ==
  rt_pc = "select" => DOMAIN terminators = DOMAIN handles

\* Back at the select after two accepts and one processed Close: the session
\* that ended is out of both maps and the other one is the only key of each.
C33_Witness ==
  /\ rt_pc = "select"
  /\ accepted = 2
  /\ sys_chan = << >>
  /\ \E t, u \in Tasks :
       /\ t # u
       /\ sess_st[t] = "closed"
       /\ removed_h[t] = 1 /\ removed_t[t] = 1
       /\ ~Finished(u)
       /\ DOMAIN handles = {sess_id[u]}
       /\ DOMAIN terminators = {sess_id[u]}

\* ======================================================================
\* Shutdown with more closing sessions than the system channel holds
\* ======================================================================

\* The capacity of the system channel, scaled down from 128 so that the
\* sessions of a run can fill it.
SysCapScaled == 1

\* SessSendClose with the channel holding SysCapScaled notifications:
\* `self.sys_tx.send(SystemMessage::Close(self.id)).await` waits for a free
\* slot while the receiver is alive and the channel full.
SessSendCloseScaled(t) ==
  /\ sess_st[t] = "closing"
  /\ IF rt_pc = "done"
       THEN /\ sess_st' = [sess_st EXCEPT ![t] = "panicked"]
            /\ UNCHANGED sys_chan
       ELSE /\ Len(sys_chan) < SysCapScaled
            /\ sys_chan' = Append(sys_chan, sess_id[t])
            /\ sess_st' = [sess_st EXCEPT ![t] = "notified"]
  /\ UNCHANGED << rt_pc, rt_join, rt_close_id, terminators, handles, next_id,
                  accepted, rt_term, close_pc, sess_id, sess_msg, term_q,
                  inbox, peer_open, sent, outbox, removed_h, removed_t >>
  /\ UNCHANGED accept_errs
  /\ UNCHANGED << clientVars, frameVars, regVars >>

SessionStepScaled(t) ==
  \/ SessRead(t)
  \/ SessEof(t)
  \/ SessSendCloseScaled(t)
  \/ SessExit(t)
  \/ SessRespond(t)
  \/ SessTerminate(t)

ShutdownNext ==
  \/ RuntimeStep
  \/ \E t \in Tasks : SessionStepScaled(t)
  \/ \E t \in Tasks, k \in FrameKinds : PeerSend(t, k)
  \/ \E t \in Tasks : PeerClose(t)
  \/ ServerCloseSend
  \/ ServerCloseReturn

ShutdownSpec == Init /\ [][ShutdownNext]_vars

\* As ServerFairness: every task that can make progress is polled.
ShutdownFairness ==
  /\ WF_vars(RuntimeStep)
  /\ \A t \in Tasks : WF_vars(SessionStepScaled(t))
  /\ WF_vars(ServerCloseReturn)

ShutdownFairSpec == ShutdownSpec /\ ShutdownFairness

\* C34: with the runtime in its termination branch, a session that has
\* detected its peer's close gets its Close notification sent (or finds the
\* receiver gone) and ends, and the runtime, once it joins the sessions,
\* returns.
C34_ShutdownCompletes ==
  /\ \A t \in Tasks :
       (RtTerminating /\ sess_st[t] = "closing") ~> Finished(t)
  /\ (rt_pc = "term_join") ~> (rt_pc = "done")

\* ======================================================================
\* Every frame read is answered or the connection goes
\* ======================================================================

\* C35: a request frame that reached a session over an open connection is
\* followed by a response frame on that connection, or by the end of the
\* connection (the client closes it, or the session task ends and drops the
\* stream).
C35_ReadFrameAnswered ==
  \A t \in Tasks :
    (Len(inbox[t]) > 0 /\ peer_open[t])
      ~> (Len(outbox[t]) > 0 \/ Finished(t) \/ ~peer_open[t])

\* ======================================================================
\* A failed write of a request
\* ======================================================================

AbandonedInFlight ==
  /\ cs_pc = "read"
  /\ cs_cur # NoReq
  /\ ~(calls[cs_cur.c] = cs_cur.n /\ reply[cs_cur.c] = ChanPending)

\* C37: while the request in flight is one whose caller has given up, the
\* session takes no other request and writes nothing; when the response is
\* there it is the response to that request, and the session reads it off
\* the stream and passes it to nobody before it is back at the select. So a
\* value that reaches a caller answers that caller's own request.
C37_AbandonedResponseDiscarded ==
  /\ [][AbandonedInFlight
          => /\ Len(msg_q') >= Len(msg_q)
             /\ written' = written
             /\ cs_pc' \in {"read", "select"}
             /\ (cs_pc' = "select" /\ Len(s2c) > 0)
                  => /\ Head(s2c).req = cs_cur
                     /\ s2c' = Tail(s2c)
                     /\ handed' = handed + 1
                     /\ reply' = reply
       ]_vars
  /\ [](\A c \in Callers :
          reply[c].st = "value" => reply[c].val.req = OwnRequest(c))

\* The first user gave up its call; the session has written that request,
\* the server has answered it, and the session is reading that response
\* while the second user's request waits in the queue.
C37_Witness ==
  /\ AbandonedInFlight
  /\ cs_cur = [c |-> 1, n |-> 1, tag |-> call_tag[1]]
  /\ call_st[1] = "abandoned"
  /\ Len(s2c) = 1
  /\ s2c[1].req = cs_cur
  /\ msg_q = << OwnRequest(2) >>
  /\ call_st[2] = "waiting"

\* ======================================================================
\* The Client dropped without close
\* ======================================================================

\* C38 as stated: once the Client is dropped without close, the session
\* task ends.
C38_DropEndsSession ==
  (client_st = "dropped") ~> (cs_pc = "done")

\* C38, amended: once the Client is dropped without close, the session task
\* ends unless it stays for ever in the read of a response the server does
\* not send. At the select both recv() calls return None at once; the None
\* of the request channel only restarts the loop, the None of the
\* termination channel ends it, and the select polls either first.
C38_DropEndsSessionUnlessBlocked ==
  /\ [](client_st = "dropped"
          => (<>(cs_pc = "done") \/ <>[]BlockedInExchange))
  /\ [][(client_st = "dropped" /\ cs_pc = "select" /\ cs_pc' = "done")
          => (c_term' = c_term /\ msg_q' = << >>)]_vars

\* A Client that new had returned was dropped; no signal was ever sent and
\* the session task has ended.
C38_Witness ==
  /\ new_pc = "ok"
  /\ client_st = "dropped"
  /\ cs_pc = "done"
  /\ c_term = 0
  /\ handed >= 2

====
